---- MODULE Spec2Model ----
(***************************************************************************)
(* The streaming translator of the gateway: StreamingService, which reads  *)
(* the upstream (OpenAI-style) SSE stream line by line and re-emits it as  *)
(* the inbound (Anthropic-style) event sequence.  One StreamingService     *)
(* value is built by server.New and shared by every request.               *)
(***************************************************************************)
EXTENDS Integers, Sequences, FiniteSets, TLC

\* ------------------------------------------------------------------------
\* Bounds of the model
\* ------------------------------------------------------------------------
MaxLines == 3      \* upstream lines read, summed over all requests
MaxPos == 1        \* the upstream numbers its tool calls 0 and MaxPos
MaxRequests == 2   \* streaming requests the server accepts
MaxConns == 2      \* connections the server can serve at the same time

Conns == 1..MaxConns
Positions == {0, MaxPos}

\* ------------------------------------------------------------------------
\* Strings that the code searches are sequences of characters
\* ------------------------------------------------------------------------
UpperLetters == <<"A", "C", "D", "E", "H", "I", "K", "L", "N", "O", "P", "S",
                  "T", "U">>
LowerLetters == <<"a", "c", "d", "e", "h", "i", "k", "l", "n", "o", "p", "s",
                  "t", "u">>

\* strings.ToLower
ToLower(str) ==
    [i \in 1..Len(str) |->
        IF \E k \in DOMAIN UpperLetters : UpperLetters[k] = str[i]
        THEN LowerLetters[CHOOSE k \in DOMAIN UpperLetters :
                              UpperLetters[k] = str[i]]
        ELSE str[i]]

\* strings.Contains
Contains(str, substr) ==
    \E i \in 0..(Len(str) - Len(substr)) :
        SubSeq(str, i + 1, i + Len(substr)) = substr

\* strings.HasPrefix
HasPrefix(str, prefix) ==
    /\ Len(prefix) <= Len(str)
    /\ SubSeq(str, 1, Len(prefix)) = prefix

\* the words of the model names
CLAUDE == <<"c", "l", "a", "u", "d", "e">>
CLAUDE_DASH == <<"c", "l", "a", "u", "d", "e", "-">>
CLAUDE_CAP == <<"C", "l", "a", "u", "d", "e", "-">>
GPT_DASH == <<"g", "p", "t", "-">>
OPUS == <<"o", "p", "u", "s">>
OPUS_CAP == <<"O", "p", "u", "s">>
SONNET == <<"s", "o", "n", "n", "e", "t">>
SONNET_UP == <<"S", "O", "N", "N", "E", "T">>
HAIKU == <<"h", "a", "i", "k", "u">>
HAIKU_UP == <<"H", "A", "I", "K", "U">>
OPU == <<"o", "p", "u">>
THREE == <<"3">>
NamePrefixes == {CLAUDE_DASH, CLAUDE_CAP, GPT_DASH}
NameWords == {<<>>, OPUS, OPUS_CAP, SONNET_UP, HAIKU, HAIKU_UP, OPU, THREE}
ModelNames == {a \o b \o c : a \in NamePrefixes, b \in NameWords, c \in NameWords}

\* Config{BigModelName, SmallModelName, OpenClaudeCache}
Configs ==
    [BigModelName : {CLAUDE_DASH \o SONNET_UP}, SmallModelName : {GPT_DASH \o THREE},
     OpenClaudeCache : BOOLEAN]
    \cup [BigModelName : {GPT_DASH \o THREE},
          SmallModelName : {CLAUDE_CAP \o HAIKU}, OpenClaudeCache : {TRUE}]

\* ------------------------------------------------------------------------
\* ModelSelectorService
\* ------------------------------------------------------------------------
\* "haiku" is looked for before "opus" and "sonnet"
SelectModel_haikuFirst(cfg, anthropicModel) ==
    LET clientModelLower == ToLower(anthropicModel)
    IN  IF Contains(clientModelLower, HAIKU) THEN cfg.SmallModelName
        ELSE IF Contains(clientModelLower, OPUS)
                \/ Contains(clientModelLower, SONNET)
        THEN cfg.BigModelName
        ELSE cfg.SmallModelName

SelectModel(cfg, anthropicModel) ==
    LET clientModelLower == ToLower(anthropicModel)
    IN  IF Contains(clientModelLower, OPUS)
           \/ Contains(clientModelLower, SONNET)
        THEN cfg.BigModelName
        ELSE IF Contains(clientModelLower, HAIKU) THEN cfg.SmallModelName
        ELSE cfg.SmallModelName

ValidateModel(modelName) ==
    LET modelNameLower == ToLower(modelName)
    IN  HasPrefix(modelNameLower, CLAUDE)

\* ------------------------------------------------------------------------
\* Downstream events (the maps handed to writeStreamEvent)
\* ------------------------------------------------------------------------
BaseEvent ==
    [type |-> "", index |-> -1, block |-> "", id |-> "", name |-> "",
     text |-> "", stop_reason |-> "", model |-> "", msg_id |-> 0,
     usage |-> <<>>]

MessageStartEvent(messageID, originalModel) ==
    [BaseEvent EXCEPT !.type = "message_start", !.msg_id = messageID,
                      !.model = originalModel, !.usage = <<0, 0>>]

PingEvent == [BaseEvent EXCEPT !.type = "ping"]

TextBlockStartEvent(index) ==
    [BaseEvent EXCEPT !.type = "content_block_start", !.index = index,
                      !.block = "text"]

TextDeltaEvent(index, textContent) ==
    [BaseEvent EXCEPT !.type = "content_block_delta", !.index = index,
                      !.block = "text_delta", !.text = textContent]

ToolBlockStartEvent(index, id, name) ==
    [BaseEvent EXCEPT !.type = "content_block_start", !.index = index,
                      !.block = "tool_use", !.id = id, !.name = name]

\* the delta is written without the fragment
InputJSONDeltaEvent_noFragment(index, arguments) ==
    [BaseEvent EXCEPT !.type = "content_block_delta", !.index = index,
                      !.block = "input_json_delta"]

InputJSONDeltaEvent(index, arguments) ==
    [BaseEvent EXCEPT !.type = "content_block_delta", !.index = index,
                      !.block = "input_json_delta", !.text = arguments]

ContentBlockStopEvent(index) ==
    [BaseEvent EXCEPT !.type = "content_block_stop", !.index = index]

MessageDeltaEvent(stopReason, outputTokens) ==
    [BaseEvent EXCEPT !.type = "message_delta", !.stop_reason = stopReason,
                      !.usage = <<outputTokens>>]

MessageStopEvent == [BaseEvent EXCEPT !.type = "message_stop"]

ErrorEvent == [BaseEvent EXCEPT !.type = "error", !.block = "api_error"]

\* ------------------------------------------------------------------------
\* Upstream lines
\* ------------------------------------------------------------------------
ToolIDs == {"", "call_1"}
ToolNames == {"", "fn"}
ArgFragments == {"", "{"}

\* models.OpenAIToolCall as it arrives in a streamed delta
ToolCallDeltas ==
    {tc \in [Index : Positions, ID : ToolIDs, Name : ToolNames,
             Arguments : ArgFragments] :
        tc.Arguments # "" => (tc.ID = "") = (tc.Name = "")}

FullToolCall(p) == [Index |-> p, ID |-> "call_1", Name |-> "fn", Arguments |-> ""]

\* a parsed models.OpenAIStreamResponse, reduced to choices[0]
StreamChunk(hasChoice, content, toolCalls, finishReason) ==
    [hasChoice |-> hasChoice, content |-> content, toolCalls |-> toolCalls,
     finishReason |-> finishReason]

FinishReasons == {"stop", "tool_calls", "unknown"}

Chunks ==
    {StreamChunk(FALSE, "", <<>>, "")}
    \cup {StreamChunk(TRUE, "", <<>>, "")}
    \cup {StreamChunk(TRUE, "hi", <<>>, f) : f \in {"", "stop"}}
    \cup {StreamChunk(TRUE, "hi", <<FullToolCall(p)>>, "") : p \in Positions}
    \cup {StreamChunk(TRUE, "", <<tc>>, "") : tc \in ToolCallDeltas}
    \cup {StreamChunk(TRUE, "", <<FullToolCall(p)>>, "tool_calls") : p \in Positions}
    \cup {StreamChunk(TRUE, "", <<FullToolCall(pq[1]), FullToolCall(pq[2])>>, "") :
             pq \in {x \in Positions \X Positions : x[1] # x[2]}}
    \cup {StreamChunk(TRUE, "", <<>>, f) : f \in FinishReasons}

\* ------------------------------------------------------------------------
\* The inbound request (AnthropicRequest) and the outbound one (OpenAIRequest)
\* ------------------------------------------------------------------------
\* a content item of an inbound message or system prompt, as parsed from
\* JSON: typ is its "type" ("" for an item that is no object or has no
\* type), hasText whether "text" (the "content" of a tool_result, the
\* "input" of a tool_use) is there, cache its cache_control type
\* ("" when it has none), valid whether an image has a base64 source with
\* media type and data, resp. a tool_result has a tool_use_id
Block(typ) ==
    [typ |-> typ, text |-> "", hasText |-> TRUE, cache |-> "", id |-> "",
     name |-> "", valid |-> TRUE, isError |-> FALSE, plain |-> FALSE]

\* an item of a list that is a JSON string, not an object
PlainString(text) == [Block("") EXCEPT !.text = text, !.plain = TRUE]

\* the content of a message: a string, a list, or another JSON value
StringContent(text) == [kind |-> "string", text |-> text, parts |-> <<>>]
ListContent(parts) == [kind |-> "list", text |-> "", parts |-> parts]
OtherContent(json) == [kind |-> "other", text |-> json, parts |-> <<>>]
NoContent == [kind |-> "none", text |-> "", parts |-> <<>>]

AnthropicMessage(role, content) == [Role |-> role, Content |-> content]

\* OpenAIMessage; from is the index of the inbound message it was built
\* for (0 for the system prompt)
OpenAIMessage(role) ==
    [Role |-> role, Content |-> NoContent, ToolCalls |-> <<>>,
     ToolCallID |-> "", CacheControl |-> "", from |-> 0]

\* a part of a structured outbound content
ContentPart(typ, text, cache) == [typ |-> typ, text |-> text, cache |-> cache]

RECURSIVE Join(_, _)
\* strings.Join
Join(elems, sep) ==
    IF elems = <<>> THEN ""
    ELSE IF Len(elems) = 1 THEN elems[1]
    ELSE elems[1] \o sep \o Join(Tail(elems), sep)

\* the result of a conversion that can fail
Converted(messages, err) == [messages |-> messages, err |-> err]

\* the random bytes of generateToolUseID, as text
Seeds == {"7f", "c3"}
IndexText == <<"0", "1", "2", "3", "4", "5">>

\* fmt.Sprintf("[UNKNOWN_CONTENT_TYPE:%s] %s", contentType, json)
UnknownContentText(item) == "[UNKNOWN_CONTENT_TYPE:" \o item.typ \o "] {}"

\* the cache hint is kept on every model
isClaudeModel_always(cfg, targetModelName) == TRUE

isClaudeModel(cfg, targetModelName) ==
    cfg.OpenClaudeCache /\ Contains(ToLower(targetModelName), CLAUDE)

convertToolResultToMessage(toolResult, claude) ==
    LET contentParts ==
            (IF toolResult.isError THEN <<"[ERROR]">> ELSE <<>>)
            \o (IF toolResult.hasText THEN <<toolResult.text>> ELSE <<>>)
        toolMsg == [OpenAIMessage("tool") EXCEPT
                       !.ToolCallID = toolResult.id,
                       !.Content = StringContent(Join(contentParts, " ")),
                       !.CacheControl = IF claude THEN toolResult.cache ELSE ""]
    IN  IF toolResult.valid THEN Converted(<<toolMsg>>, FALSE)
        ELSE Converted(<<>>, TRUE)

\* the first text part is taken for the whole content of any list
userContent_firstPart(userContentParts, claude) ==
    IF Len(userContentParts) >= 1
    THEN IF userContentParts[1].typ = "text" /\ ~claude
         THEN StringContent(userContentParts[1].text)
         ELSE ListContent(userContentParts)
    ELSE ListContent(userContentParts)

\* the content of the user message built from the collected parts
userContent(userContentParts, claude) ==
    IF Len(userContentParts) = 1
    THEN IF userContentParts[1].typ = "text" /\ ~claude
         THEN StringContent(userContentParts[1].text)
         ELSE ListContent(userContentParts)
    ELSE ListContent(userContentParts)

RECURSIVE convertUserItems(_, _, _, _)
\* the loop of convertUserMessage over the items not yet seen, with the
\* tool messages and the content parts collected so far
convertUserItems(content, claude, messages, userContentParts) ==
    IF content = <<>>
    THEN Converted(
            IF Len(userContentParts) > 0
            THEN Append(messages,
                        [OpenAIMessage("user") EXCEPT
                            !.Content = userContent(userContentParts, claude)])
            ELSE messages,
            FALSE)
    ELSE LET item == Head(content)
             rest == Tail(content)
             hint == IF claude THEN item.cache ELSE ""
         IN  CASE item.typ = "" ->
                    convertUserItems(rest, claude, messages, userContentParts)
               [] item.typ = "text" ->
                    convertUserItems(rest, claude, messages,
                        IF item.hasText
                        THEN Append(userContentParts,
                                    ContentPart("text", item.text, hint))
                        ELSE userContentParts)
               [] item.typ = "image" ->
                    convertUserItems(rest, claude, messages,
                        IF item.valid
                        THEN Append(userContentParts,
                                    ContentPart("image_url",
                                        "data:image/png;base64," \o item.text,
                                        hint))
                        ELSE userContentParts)
               [] item.typ = "tool_result" ->
                    LET res == convertToolResultToMessage(item, claude)
                    IN  IF res.err THEN Converted(<<>>, TRUE)
                        ELSE convertUserItems(rest, claude,
                                 messages \o res.messages, userContentParts)
               [] OTHER ->
                    convertUserItems(rest, claude, messages,
                        Append(userContentParts,
                               ContentPart("text", UnknownContentText(item), "")))

convertUserMessage(content, claude) ==
    convertUserItems(content, claude, <<>>, <<>>)

generateToolUseID(seed, messageIndex, contentIndex) ==
    "toolu_" \o seed \o IndexText[messageIndex + 1] \o IndexText[contentIndex + 1]

convertToolUse(toolUse, claude, generated) ==
    [ID |-> IF toolUse.id # "" THEN toolUse.id ELSE generated,
     Type |-> "function",
     Name |-> toolUse.name,
     Arguments |-> IF toolUse.hasText THEN toolUse.text ELSE "{}",
     CacheControl |-> IF claude THEN toolUse.cache ELSE ""]

\* the tool-call message is put before the text message
assistantMessages_toolsFirst(assistantText, toolCalls) ==
    IF assistantText # "" /\ Len(toolCalls) > 0
    THEN <<[OpenAIMessage("assistant") EXCEPT !.ToolCalls = toolCalls],
           [OpenAIMessage("assistant") EXCEPT
               !.Content = StringContent(assistantText)]>>
    ELSE IF assistantText # ""
    THEN <<[OpenAIMessage("assistant") EXCEPT
               !.Content = StringContent(assistantText)]>>
    ELSE IF Len(toolCalls) > 0
    THEN <<[OpenAIMessage("assistant") EXCEPT !.ToolCalls = toolCalls]>>
    ELSE <<>>

\* the messages convertAssistantMessage builds from what its loop found
assistantMessages(assistantText, toolCalls) ==
    IF assistantText # "" /\ Len(toolCalls) > 0
    THEN <<[OpenAIMessage("assistant") EXCEPT
               !.Content = StringContent(assistantText)],
           [OpenAIMessage("assistant") EXCEPT !.ToolCalls = toolCalls]>>
    ELSE IF assistantText # ""
    THEN <<[OpenAIMessage("assistant") EXCEPT
               !.Content = StringContent(assistantText)]>>
    ELSE IF Len(toolCalls) > 0
    THEN <<[OpenAIMessage("assistant") EXCEPT !.ToolCalls = toolCalls]>>
    ELSE <<>>

RECURSIVE convertAssistantItems(_, _, _, _, _, _, _)
\* the loop of convertAssistantMessage from item contentIndex on
convertAssistantItems(content, contentIndex, messageIndex, claude, seed, textParts, toolCalls) ==
    IF contentIndex >= Len(content)
    THEN assistantMessages(Join(textParts, "\n"), toolCalls)
    ELSE LET item == content[contentIndex + 1]
         IN  CASE item.typ = "" ->
                    convertAssistantItems(content, contentIndex + 1,
                        messageIndex, claude, seed, textParts, toolCalls)
               [] item.typ = "text" ->
                    convertAssistantItems(content, contentIndex + 1,
                        messageIndex, claude, seed,
                        IF item.hasText THEN Append(textParts, item.text)
                        ELSE textParts,
                        toolCalls)
               [] item.typ = "tool_use" ->
                    convertAssistantItems(content, contentIndex + 1,
                        messageIndex, claude, seed, textParts,
                        Append(toolCalls,
                               convertToolUse(item, claude,
                                   generateToolUseID(seed, messageIndex,
                                                     contentIndex))))
               [] OTHER ->
                    convertAssistantItems(content, contentIndex + 1,
                        messageIndex, claude, seed,
                        Append(textParts, UnknownContentText(item)), toolCalls)

convertAssistantMessage(content, messageIndex, claude, seed) ==
    Converted(convertAssistantItems(content, 0, messageIndex, claude, seed,
                                    <<>>, <<>>),
              FALSE)

\* every role but assistant is converted as a user message
convertComplexMessage_othersAsUser(role, content, messageIndex, claude, seed) ==
    IF role = "assistant"
    THEN convertAssistantMessage(content, messageIndex, claude, seed)
    ELSE convertUserMessage(content, claude)

convertComplexMessage(role, content, messageIndex, claude, seed) ==
    IF role = "user" THEN convertUserMessage(content, claude)
    ELSE IF role = "assistant"
    THEN convertAssistantMessage(content, messageIndex, claude, seed)
    ELSE Converted(<<>>, FALSE)

convertSingleMessage(msg, index, claude, seed) ==
    CASE msg.Content.kind = "string" ->
            Converted(<<[OpenAIMessage(msg.Role) EXCEPT
                            !.Content = StringContent(msg.Content.text)]>>,
                      FALSE)
      [] msg.Content.kind = "list" ->
            convertComplexMessage(msg.Role, msg.Content.parts, index, claude,
                                  seed)
      [] OTHER ->
            Converted(<<[OpenAIMessage(msg.Role) EXCEPT
                            !.Content = StringContent(msg.Content.text)]>>,
                      FALSE)

RECURSIVE SystemParts(_)
\* the content parts convertSystemContent builds for a cache-capable model
SystemParts(sys) ==
    IF sys = <<>> THEN <<>>
    ELSE LET item == Head(sys)
         IN  (IF item.plain THEN <<ContentPart("text", item.text, "")>>
              ELSE IF item.typ = "text"
              THEN <<ContentPart("text",
                                 IF item.hasText THEN item.text ELSE "",
                                 item.cache)>>
              ELSE <<>>)
             \o SystemParts(Tail(sys))

RECURSIVE SystemTexts(_)
\* the texts convertSystemContent joins for any other model
SystemTexts(sys) ==
    IF sys = <<>> THEN <<>>
    ELSE LET item == Head(sys)
         IN  (IF item.plain THEN <<item.text>>
              ELSE IF item.typ = "text" /\ item.hasText THEN <<item.text>>
              ELSE <<>>)
             \o SystemTexts(Tail(sys))

convertSystemContent(system, claude) ==
    CASE system.kind = "string" -> StringContent(system.text)
      [] system.kind = "list" ->
            IF claude THEN ListContent(SystemParts(system.parts))
            ELSE StringContent(Join(SystemTexts(system.parts), "\n"))
      [] OTHER -> StringContent(system.text)

\* the message of the system prompt, when there is one
systemMessages(system, claude) ==
    IF system.kind = "none" THEN <<>>
    ELSE LET systemContent == convertSystemContent(system, claude)
         IN  IF systemContent.kind = "string" /\ systemContent.text # ""
             THEN <<[OpenAIMessage("system") EXCEPT
                        !.Content = StringContent(systemContent.text)]>>
             ELSE <<[OpenAIMessage("system") EXCEPT !.Content = systemContent]>>

RECURSIVE convertMessagesFrom(_, _, _, _, _)
\* the loop of convertMessages from the message at index i on; each message
\* built is tagged with the position i + 1 of the message it was built for
convertMessagesFrom(anthropicMessages, i, claude, seed, messages) ==
    IF i >= Len(anthropicMessages) THEN Converted(messages, FALSE)
    ELSE LET res == convertSingleMessage(anthropicMessages[i + 1], i, claude,
                                         seed)
             convertedMessages ==
                 [k \in DOMAIN res.messages |->
                     [res.messages[k] EXCEPT !.from = i + 1]]
         IN  IF res.err THEN Converted(<<>>, TRUE)
             ELSE convertMessagesFrom(anthropicMessages, i + 1, claude, seed,
                                      messages \o convertedMessages)

\* the system message is appended after the messages
convertMessages_systemLast(anthropicMessages, system, claude, seed) ==
    LET res == convertMessagesFrom(anthropicMessages, 0, claude, seed, <<>>)
    IN  IF res.err THEN res
        ELSE Converted(res.messages \o systemMessages(system, claude), FALSE)

convertMessages(anthropicMessages, system, claude, seed) ==
    convertMessagesFrom(anthropicMessages, 0, claude, seed,
                        systemMessages(system, claude))

\* AnthropicTool{Name, CacheControl}
AnthropicTool(name, cache) == [Name |-> name, CacheControl |-> cache]

convertTools(anthropicTools, claude) ==
    [k \in DOMAIN anthropicTools |->
        [Type |-> "function",
         Name |-> anthropicTools[k].Name,
         CacheControl |-> IF claude /\ anthropicTools[k].CacheControl # ""
                          THEN anthropicTools[k].CacheControl ELSE ""]]

\* AnthropicToolChoice{Type, Name}; the request may have none
AnthropicToolChoice(typ, name) == [present |-> TRUE, Type |-> typ, Name |-> name]
NoToolChoice == [present |-> FALSE, Type |-> "", Name |-> ""]

\* the outbound tool_choice: a string, or a reference to a function
ChoiceString(value) == [kind |-> "string", value |-> value]
ChoiceFunction(name) == [kind |-> "function", value |-> name]
ChoiceUnset == [kind |-> "unset", value |-> ""]

\* a named tool is not targeted: "tool" is treated as "any"
convertToolChoice_anyForTool(choice) ==
    CASE choice.Type = "auto" -> ChoiceString("auto")
      [] choice.Type = "any" -> ChoiceString("required")
      [] choice.Type = "tool" -> ChoiceString("required")
      [] OTHER -> ChoiceString("auto")

convertToolChoice(choice) ==
    CASE choice.Type = "auto" -> ChoiceString("auto")
      [] choice.Type = "any" -> ChoiceString("required")
      [] choice.Type = "tool" ->
            IF choice.Name # "" THEN ChoiceFunction(choice.Name)
            ELSE ChoiceString("required")
      [] OTHER -> ChoiceString("auto")

\* AnthropicRequest; System is NoContent when the request has none,
\* overLimit tells whether ValidateTokenLimits finds the request too long,
\* bindable whether ShouldBindJSON accepts the body
AnthropicRequest(modelName, system, messages, tools, toolChoice, stream) ==
    [Model |-> modelName, System |-> system, Messages |-> messages,
     Tools |-> tools, ToolChoice |-> toolChoice, Stream |-> stream,
     overLimit |-> FALSE, bindable |-> TRUE]

\* the result of ConvertAnthropicToOpenAI: the OpenAIRequest, or an error
NoOpenAIRequest ==
    [err |-> TRUE, Model |-> <<>>, Messages |-> <<>>, Tools |-> <<>>,
     ToolChoice |-> ChoiceUnset, Stream |-> FALSE]

ConvertAnthropicToOpenAI(cfg, request, seed) ==
    LET selectedModel == SelectModel(cfg, request.Model)
        claude == isClaudeModel(cfg, selectedModel)
        res == convertMessages(request.Messages, request.System, claude, seed)
    IN  IF res.err THEN NoOpenAIRequest
        ELSE [err |-> FALSE,
              Model |-> selectedModel,
              Messages |-> res.messages,
              Tools |-> IF Len(request.Tools) > 0
                        THEN convertTools(request.Tools, claude) ELSE <<>>,
              ToolChoice |-> IF Len(request.Tools) > 0
                                /\ request.ToolChoice.present
                             THEN convertToolChoice(request.ToolChoice)
                             ELSE ChoiceUnset,
              Stream |-> request.Stream]

\* ------------------------------------------------------------------------
\* The upstream response (OpenAIResponse) and the inbound one
\* ------------------------------------------------------------------------
\* OpenAIToolCall of a complete response
ResponseToolCall(id, name, arguments, cache) ==
    [ID |-> id, Name |-> name, Arguments |-> arguments, CacheControl |-> cache]

\* OpenAIChoice{Message{Content, ToolCalls}, FinishReason}
OpenAIChoice(content, toolCalls, finishReason) ==
    [Content |-> content, ToolCalls |-> toolCalls, FinishReason |-> finishReason]

\* OpenAIResponse{ID, Choices, Usage}
OpenAIResponse(id, choices, promptTokens, completionTokens) ==
    [ID |-> id, Choices |-> choices, PromptTokens |-> promptTokens,
     CompletionTokens |-> completionTokens]

\* AnthropicContent
AnthropicContent(typ) ==
    [Type |-> typ, Text |-> "", ID |-> "", Name |-> "", Input |-> "",
     CacheControl |-> ""]

\* the argument strings json.Unmarshal accepts as an object
JSONObjects == {"{}", "{\"a\":1}"}

\* the input of a tool_use block, as JSON text
toolInput(arguments) ==
    IF arguments # ""
    THEN IF arguments \in JSONObjects THEN arguments
         ELSE "{\"error_parsing_arguments\":" \o arguments \o "}"
    ELSE "{}"

RECURSIVE contentOfParts(_)
\* the blocks built from a structured message content
contentOfParts(msgContent) ==
    IF msgContent = <<>> THEN <<>>
    ELSE LET part == Head(msgContent)
         IN  (CASE part.typ = "text" ->
                      <<[AnthropicContent("text") EXCEPT
                            !.Text = part.text, !.CacheControl = part.cache]>>
                [] part.typ = "image_url" ->
                      <<[AnthropicContent("text") EXCEPT
                            !.Text = "[IMAGE_CONTENT]"]>>
                [] OTHER -> <<>>)
             \o contentOfParts(Tail(msgContent))

\* the empty text block is added whenever there is no text block
withPlaceholder_noText(content) ==
    IF \A i \in DOMAIN content : content[i].Type # "text"
    THEN <<AnthropicContent("text")>> \o content
    ELSE content

\* the last statement of convertOpenAIMessageContent
withPlaceholder(content) ==
    IF Len(content) = 0 THEN <<AnthropicContent("text")>> ELSE content

convertOpenAIMessageContent(msg) ==
    LET texts ==
            CASE msg.Content.kind = "string" ->
                    IF msg.Content.text # ""
                    THEN <<[AnthropicContent("text") EXCEPT
                               !.Text = msg.Content.text]>>
                    ELSE <<>>
              [] msg.Content.kind = "list" -> contentOfParts(msg.Content.parts)
              [] OTHER -> <<>>
        toolUses ==
            [k \in DOMAIN msg.ToolCalls |->
                [AnthropicContent("tool_use") EXCEPT
                    !.ID = msg.ToolCalls[k].ID,
                    !.Name = msg.ToolCalls[k].Name,
                    !.Input = toolInput(msg.ToolCalls[k].Arguments),
                    !.CacheControl = msg.ToolCalls[k].CacheControl]]
    IN  withPlaceholder(texts \o toolUses)

\* content_filter is not in the table
ConversionService_convertFinishReason_noFilter(reason) ==
    CASE reason = "stop" -> "end_turn"
      [] reason = "length" -> "max_tokens"
      [] reason = "tool_calls" -> "tool_use"
      [] OTHER -> "end_turn"

\* convertFinishReason of the ConversionService
ConversionService_convertFinishReason(reason) ==
    CASE reason = "stop" -> "end_turn"
      [] reason = "length" -> "max_tokens"
      [] reason = "tool_calls" -> "tool_use"
      [] reason = "content_filter" -> "stop_sequence"
      [] OTHER -> "end_turn"

\* the result of ConvertOpenAIToAnthropic: the AnthropicResponse, or an error
NoAnthropicResponse ==
    [err |-> TRUE, ID |-> "", Model |-> <<>>, StopReason |-> "",
     InputTokens |-> 0, OutputTokens |-> 0, Content |-> <<>>]

ConvertOpenAIToAnthropic(resp, originalModel) ==
    IF Len(resp.Choices) = 0 THEN NoAnthropicResponse
    ELSE LET choice == resp.Choices[1]
         IN  [err |-> FALSE,
              ID |-> resp.ID,
              Model |-> originalModel,
              StopReason |-> ConversionService_convertFinishReason(
                                 choice.FinishReason),
              InputTokens |-> resp.PromptTokens,
              OutputTokens |-> resp.CompletionTokens,
              Content |-> convertOpenAIMessageContent(choice)]

\* ------------------------------------------------------------------------
\* APIError and the OpenAIClient
\* ------------------------------------------------------------------------
ErrorTypes ==
    {"validation_error", "authentication_error", "permission_error",
     "not_found_error", "rate_limit_error", "api_error", "internal_error",
     "invalid_request_error"}

\* APIError.HTTPStatus
HTTPStatus(errorType) ==
    CASE errorType \in {"validation_error", "invalid_request_error"} -> 400
      [] errorType = "authentication_error" -> 401
      [] errorType = "permission_error" -> 403
      [] errorType = "not_found_error" -> 404
      [] errorType = "rate_limit_error" -> 429
      [] errorType = "api_error" -> 502
      [] errorType = "internal_error" -> 500
      [] OTHER -> 500

\* an error a client call returns: an *APIError of a type, or a plain error
\* (apiError FALSE); eof tells whether its message contains "EOF"
ClientError(apiError, errorType, eof) ==
    [apiError |-> apiError, errorType |-> errorType, eof |-> eof]

\* what the upstream does with one attempt: it answers 200 with a response,
\* it answers another status with a body that may carry an error message,
\* or the attempt ends with a plain error (the transport fails, or the body
\* cannot be read or parsed)
AttemptOK(response) ==
    [kind |-> "ok", status |-> 200, hasMessage |-> FALSE, eof |-> FALSE,
     response |-> response]
AttemptHTTPError(status, hasMessage, eof) ==
    [kind |-> "http", status |-> status, hasMessage |-> hasMessage,
     eof |-> eof, response |-> OpenAIResponse("", <<>>, 0, 0)]
AttemptTransportError(eof) ==
    [kind |-> "transport", status |-> 0, hasMessage |-> FALSE, eof |-> eof,
     response |-> OpenAIResponse("", <<>>, 0, 0)]

handleAPIError(statusCode, hasMessage, eof) ==
    IF hasMessage THEN ClientError(TRUE, "api_error", eof)
    ELSE CASE statusCode = 401 -> ClientError(TRUE, "authentication_error", FALSE)
           [] statusCode = 403 -> ClientError(TRUE, "permission_error", FALSE)
           [] statusCode = 429 -> ClientError(TRUE, "rate_limit_error", FALSE)
           [] statusCode = 400 -> ClientError(TRUE, "validation_error", eof)
           [] OTHER -> ClientError(TRUE, "api_error", eof)

\* the error of one attempt that did not answer 200
attemptError(attempt) ==
    IF attempt.kind = "http"
    THEN handleAPIError(attempt.status, attempt.hasMessage, attempt.eof)
    ELSE ClientError(FALSE, "", attempt.eof)

isEOFError(err) == err.eof

maxRetries == 3

\* the result of a client call: the attempts made, and the response or the
\* error of the last one
ClientResult(attempts, failed, err, response) ==
    [attempts |-> attempts, failed |-> failed, err |-> err,
     response |-> response]

RECURSIVE createChatCompletionFrom(_, _)
\* the loop of CreateChatCompletion from attempt number attempt on, against
\* an upstream that answers the attempts with answers[1], answers[2], ...
createChatCompletionFrom(answers, attempt) ==
    LET answer == answers[attempt + 1]
        made == SubSeq(answers, 1, attempt + 1)
    IN  IF answer.kind = "ok"
        THEN ClientResult(made, FALSE, ClientError(FALSE, "", FALSE),
                          answer.response)
        ELSE IF isEOFError(attemptError(answer)) /\ attempt < maxRetries - 1
        THEN createChatCompletionFrom(answers, attempt + 1)
        ELSE ClientResult(made, TRUE, attemptError(answer), answer.response)

CreateChatCompletion(answers) == createChatCompletionFrom(answers, 0)

\* the streaming call is retried as the other one is
CreateStreamingChatCompletion_retried(answers) ==
    createChatCompletionFrom(answers, 0)

CreateStreamingChatCompletion(answers) ==
    LET answer == answers[1]
    IN  IF answer.kind = "ok"
        THEN ClientResult(<<answer>>, FALSE, ClientError(FALSE, "", FALSE),
                          answer.response)
        ELSE ClientResult(<<answer>>, TRUE, attemptError(answer),
                          answer.response)

\* ------------------------------------------------------------------------
\* Handler.CreateMessage
\* ------------------------------------------------------------------------
\* what the handler wrote downstream: c.JSON(status, ErrorResponse),
\* c.JSON(200, anthropicResp), or server-sent events with gin's status 200
MessageReply(anthropicResp) ==
    [status |-> 200, kind |-> "message", errorType |-> "",
     message |-> anthropicResp, events |-> <<>>]
StreamReply(events) ==
    [status |-> 200, kind |-> "events", errorType |-> "",
     message |-> NoAnthropicResponse, events |-> events]
NoReply ==
    [status |-> 0, kind |-> "none", errorType |-> "",
     message |-> NoAnthropicResponse, events |-> <<>>]

\* c.JSON(status, ErrorResponse) for an error of a type
JSONError(status, errorType) ==
    [status |-> status, kind |-> "error", errorType |-> errorType,
     message |-> NoAnthropicResponse, events |-> <<>>]

\* handleStreamingRequest, up to the call of StreamResponse: when the client
\* call failed the reply is the error event of HandleStreamingError, if its
\* write succeeds (w = 1)
handleStreamingRequest(res, w) ==
    IF res.failed THEN StreamReply(SubSeq(<<ErrorEvent>>, 1, w))
    ELSE StreamReply(<<>>)

handleNonStreamingRequest(res, originalModel) ==
    IF res.failed
    THEN IF res.err.apiError
         THEN JSONError(HTTPStatus(res.err.errorType), res.err.errorType)
         ELSE JSONError(500, "internal_error")
    ELSE LET anthropicResp == ConvertOpenAIToAnthropic(res.response,
                                                       originalModel)
         IN  IF anthropicResp.err THEN JSONError(500, "internal_error")
             ELSE MessageReply(anthropicResp)

\* ------------------------------------------------------------------------
\* The requests and the upstream answers
\* ------------------------------------------------------------------------
MaxBlocks == 3     \* content items of one inbound message
MaxMessages == 2   \* messages of one inbound request
MaxParts == 2      \* content parts, and tool calls, of one upstream response

\* the sequences over a set of at most n elements
SeqsUpTo(S, n) == UNION {[1..k -> S] : k \in 0..n}

UserBlocks ==
    {[Block("text") EXCEPT !.text = "a"],
     [Block("text") EXCEPT !.text = "b", !.cache = "ephemeral"],
     [Block("text") EXCEPT !.hasText = FALSE],
     [Block("image") EXCEPT !.text = "AAAA", !.cache = "ephemeral"],
     [Block("image") EXCEPT !.valid = FALSE],
     [Block("tool_result") EXCEPT !.id = "t1", !.text = "r",
                                  !.cache = "ephemeral"],
     [Block("tool_result") EXCEPT !.id = "t2", !.hasText = FALSE,
                                  !.isError = TRUE],
     [Block("tool_result") EXCEPT !.valid = FALSE],
     [Block("thinking") EXCEPT !.cache = "ephemeral"],
     Block("")}

AssistantBlocks ==
    {[Block("text") EXCEPT !.text = "a"],
     [Block("text") EXCEPT !.text = "b", !.cache = "ephemeral"],
     Block("text"),
     [Block("text") EXCEPT !.hasText = FALSE],
     [Block("tool_use") EXCEPT !.id = "t1", !.name = "f", !.text = "{}",
                               !.cache = "ephemeral"],
     [Block("tool_use") EXCEPT !.name = "g", !.hasText = FALSE],
     [Block("thinking") EXCEPT !.cache = "ephemeral"],
     Block("")}

\* one message with any content
RichMessages ==
    {AnthropicMessage("user", ListContent(bs)) :
        bs \in SeqsUpTo(UserBlocks, MaxBlocks)}
    \cup {AnthropicMessage("assistant", ListContent(bs)) :
            bs \in SeqsUpTo(AssistantBlocks, MaxBlocks)}
    \cup {AnthropicMessage(role, content) :
            role \in {"user", "assistant", "system"},
            content \in {StringContent("hi"), StringContent(""),
                         OtherContent("5"),
                         ListContent(<<[Block("text") EXCEPT !.text = "a"]>>)}}

\* the messages of a conversation
TurnMessages ==
    {AnthropicMessage("user", StringContent("hi")),
     AnthropicMessage("assistant", StringContent("ok")),
     AnthropicMessage("assistant", ListContent(
         <<[Block("tool_use") EXCEPT !.id = "t1", !.name = "f"],
           [Block("text") EXCEPT !.text = "a"]>>)),
     AnthropicMessage("user", ListContent(
         <<[Block("text") EXCEPT !.text = "a"],
           [Block("tool_result") EXCEPT !.id = "t1", !.text = "r"]>>)),
     AnthropicMessage("user", ListContent(<<Block("")>>)),
     AnthropicMessage("user", ListContent(
         <<[Block("tool_result") EXCEPT !.valid = FALSE]>>))}

Systems ==
    {NoContent, StringContent("sys"), StringContent(""), OtherContent("5"),
     ListContent(<<>>),
     ListContent(<<[Block("text") EXCEPT !.text = "a", !.cache = "ephemeral"],
                   PlainString("p")>>),
     ListContent(<<[Block("text") EXCEPT !.hasText = FALSE],
                   [Block("image") EXCEPT !.cache = "ephemeral"]>>),
     ListContent(<<[Block("text") EXCEPT !.hasText = FALSE],
                   [Block("text") EXCEPT !.text = "a"]>>)}

ToolLists ==
    {<<>>, <<AnthropicTool("f", "")>>,
     <<AnthropicTool("f", "ephemeral"), AnthropicTool("g", "")>>}

ToolChoices ==
    {NoToolChoice, AnthropicToolChoice("auto", ""),
     AnthropicToolChoice("any", ""), AnthropicToolChoice("tool", "f"),
     AnthropicToolChoice("tool", ""), AnthropicToolChoice("none", ""),
     AnthropicToolChoice("", "f")}

\* the model names of the ordinary requests: one of each tier
TierNames == {CLAUDE_DASH \o THREE \o SONNET, CLAUDE_DASH \o THREE \o HAIKU}

Hello == <<AnthropicMessage("user", StringContent("hi"))>>

Requests ==
    {AnthropicRequest(CLAUDE_DASH \o THREE \o SONNET, NoContent, <<m>>, <<>>,
                      NoToolChoice, FALSE) :
        m \in RichMessages}
    \cup {AnthropicRequest(n, sys, ms, <<>>, NoToolChoice, FALSE) :
            n \in TierNames, sys \in Systems,
            ms \in SeqsUpTo(TurnMessages, MaxMessages)}
    \cup {AnthropicRequest(n, NoContent, Hello, ts, tc, FALSE) :
            n \in TierNames, ts \in ToolLists, tc \in ToolChoices}
    \cup {AnthropicRequest(n, NoContent, Hello, <<>>, NoToolChoice, st) :
            n \in ModelNames, st \in BOOLEAN}
    \cup {[AnthropicRequest(n, NoContent, Hello, <<>>, NoToolChoice, st)
              EXCEPT !.overLimit = over, !.bindable = ~over] :
            n \in TierNames, st \in BOOLEAN, over \in BOOLEAN}

ResponseParts ==
    {ContentPart("text", "a", ""), ContentPart("text", "", "ephemeral"),
     ContentPart("image_url", "u", ""), ContentPart("audio", "", "")}

ResponseContents ==
    {NoContent, StringContent(""), StringContent("hi")}
    \cup {ListContent(ps) : ps \in SeqsUpTo(ResponseParts, MaxParts)}

ResponseToolCalls ==
    {ResponseToolCall("c1", "f", "{\"a\":1}", ""),
     ResponseToolCall("c2", "g", "", "ephemeral"),
     ResponseToolCall("c3", "f", "{", "")}

ResponseFinishReasons ==
    {"stop", "length", "tool_calls", "content_filter", "", "function_call",
     "STOP"}

Responses ==
    {OpenAIResponse("r1", <<OpenAIChoice(c, tcs, "stop")>>, 3, 5) :
        c \in ResponseContents, tcs \in SeqsUpTo(ResponseToolCalls, MaxParts)}
    \cup {OpenAIResponse("r2", <<OpenAIChoice(c, tcs, fr)>>, 1, 0) :
            c \in {NoContent, StringContent("hi")},
            tcs \in {<<>>, <<ResponseToolCall("c1", "f", "{}", "")>>},
            fr \in ResponseFinishReasons}
    \cup {OpenAIResponse("r3", <<>>, 0, 0),
          OpenAIResponse("r4",
              <<OpenAIChoice(NoContent, <<>>, "length"),
                OpenAIChoice(StringContent("hi"),
                             <<ResponseToolCall("c1", "f", "{}", "")>>,
                             "stop")>>, 2, 2),
          OpenAIResponse("r5",
              <<OpenAIChoice(StringContent("hi"),
                             <<ResponseToolCall("c1", "f", "{}", "")>>,
                             "tool_calls"),
                OpenAIChoice(NoContent, <<>>, "length")>>, 2, 2)}

UpstreamStatuses == {400, 401, 403, 404, 429, 500}

\* the answers after which CreateChatCompletion tries again
RetryAnswers == {AttemptTransportError(TRUE), AttemptHTTPError(500, TRUE, TRUE)}

FailedAnswers ==
    {AttemptHTTPError(st, hm, FALSE) : st \in UpstreamStatuses, hm \in BOOLEAN}
    \cup {AttemptTransportError(FALSE)}

Welcome ==
    OpenAIResponse("r0", <<OpenAIChoice(StringContent("hi"), <<>>, "stop")>>,
                   3, 5)

\* the answers of the upstream to the attempts of one client call
AnswerRuns ==
    {<<AttemptOK(r)>> : r \in Responses}
    \cup {pre \o <<f>> : pre \in SeqsUpTo(RetryAnswers, maxRetries - 1),
                        f \in FailedAnswers \cup {AttemptOK(Welcome)}}
    \cup [1..maxRetries -> RetryAnswers]

\* a request and the answers the upstream gives while it is handled
Calls ==
    {[request |-> r, answers |-> <<AttemptOK(Welcome)>>] : r \in Requests}
    \cup {[request |-> AnthropicRequest(n, NoContent, Hello, <<>>,
                                        NoToolChoice, st),
           answers |-> a] :
            n \in TierNames, st \in BOOLEAN, a \in AnswerRuns}

\* ------------------------------------------------------------------------
\* State
\* ------------------------------------------------------------------------
\* c is the connection a request arrived on; per connection the variables
\* describe the request being served on it, or the last one served
VARIABLES
    svc,        \* the fields of the one StreamingService
    idsIssued,  \* how many message ids generateMessageID has produced
    linesRead,  \* upstream lines read so far, over all requests
    pc,         \* pc[c]: where the StreamResponse call stands
    model,      \* model[c]: the model name of the inbound request
    out,        \* out[c]: the events written downstream
    warnings,   \* warnings[c]: the "Failed to parse streaming response" log
                \* entries, each with the number of events written before it
    order,      \* order[c]: blocks in the order the upstream first mentioned them
    alone,      \* alone[c]: the same stream translated with a state of its own
    config,     \* the configuration the services were built with
    req,        \* the inbound request CreateMessage is handling
    openAIReq,  \* the outbound request ConvertAnthropicToOpenAI built from it
    upstream,   \* what the upstream answered to each attempt of the client
    reply,      \* the response written downstream: status and body
    phase       \* where CreateMessage stands

streamVars == <<svc, idsIssued, linesRead, pc, model, out, warnings, order, alone>>

msgVars == <<config, req, openAIReq, upstream, reply, phase>>

vars == <<svc, idsIssued, linesRead, pc, model, out, warnings, order, alone,
          config, req, openAIReq, upstream, reply, phase>>

\* no request has been handled yet
NoRequest == AnthropicRequest(<<>>, NoContent, <<>>, <<>>, NoToolChoice, FALSE)

MessagesIdle ==
    /\ req = NoRequest
    /\ openAIReq = NoOpenAIRequest
    /\ upstream = <<>>
    /\ reply = NoReply
    /\ phase = "idle"

\* ToolCallState{AnthropicIndex, OpenAIIndex}
NewToolCallState(anthropicIndex, openAIIndex) ==
    [ID |-> "", Name |-> "", ArgumentsBuffer |-> "",
     AnthropicIndex |-> anthropicIndex, OpenAIIndex |-> openAIIndex,
     HasSentStart |-> FALSE]

NewStreamingService ==
    [currentContentBlockIndex |-> 0, toolCallStates |-> <<>>,
     messageID |-> 0, outputTokens |-> 0, hasStartedTextBlock |-> FALSE,
     hasStartedToolBlocks |-> {}]

\* the index counter is left as the last request left it
resetStreamingState_keepsIndex(s) ==
    [s EXCEPT !.toolCallStates = <<>>, !.outputTokens = 0,
              !.hasStartedTextBlock = FALSE, !.hasStartedToolBlocks = {}]

resetStreamingState(s) ==
    [s EXCEPT !.currentContentBlockIndex = 0, !.toolCallStates = <<>>,
              !.outputTokens = 0, !.hasStartedTextBlock = FALSE,
              !.hasStartedToolBlocks = {}]

\* a handler's outcome: the state it leaves, the events it wrote, and
\* whether a write failed and the handler returned the error
Result(s, evs, err) == [s |-> s, evs |-> evs, err |-> err]

\* ------------------------------------------------------------------------
\* The handlers.  w is the number of downstream writes that succeed before
\* the connection fails; a handler returns at its first failed write.
\* ------------------------------------------------------------------------
convertFinishReason(reason) ==
    CASE reason = "stop" -> "end_turn"
      [] reason = "length" -> "max_tokens"
      [] reason = "tool_calls" -> "tool_use"
      [] reason = "content_filter" -> "stop_sequence"
      [] OTHER -> "end_turn"

handleTextDelta(s, textContent, w) ==
    LET start == TextBlockStartEvent(s.currentContentBlockIndex)
        delta == TextDeltaEvent(s.currentContentBlockIndex, textContent)
        s1 == [s EXCEPT !.hasStartedTextBlock = TRUE]
    IN  IF ~s.hasStartedTextBlock
        THEN IF w = 0 THEN Result(s, <<>>, TRUE)
             ELSE IF w = 1 THEN Result(s1, <<start>>, TRUE)
             ELSE Result(s1, <<start, delta>>, FALSE)
        ELSE IF w = 0 THEN Result(s, <<>>, TRUE)
             ELSE Result(s, <<delta>>, FALSE)

\* the tool call takes the position the upstream gave it
nextContentBlockIndex_upstream(s, openAIIndex) == openAIIndex

\* s.currentContentBlockIndex++ for a tool call seen for the first time
nextContentBlockIndex(s, openAIIndex) == s.currentContentBlockIndex + 1

\* the start is sent as soon as the id is known
needsStart_idOnly(state) == ~state.HasSentStart /\ state.ID # ""

\* the condition under which content_block_start is sent for a tool call
needsStart(state) == ~state.HasSentStart /\ state.ID # "" /\ state.Name # ""

\* one iteration of the loop of handleToolCallDeltas
handleToolCall(s, toolCall, w) ==
    LET openAIIndex == toolCall.Index
        s1 == IF openAIIndex \in DOMAIN s.toolCallStates THEN s
              ELSE [s EXCEPT
                      !.currentContentBlockIndex =
                          nextContentBlockIndex(s, openAIIndex),
                      !.toolCallStates =
                          (openAIIndex :> NewToolCallState(
                               nextContentBlockIndex(s, openAIIndex),
                               openAIIndex)) @@ @]
        st1 == [s1.toolCallStates[openAIIndex] EXCEPT
                  !.ID = IF toolCall.ID # "" THEN toolCall.ID ELSE @,
                  !.Name = IF toolCall.Name # "" THEN toolCall.Name ELSE @,
                  !.ArgumentsBuffer =
                      IF toolCall.Arguments # "" THEN @ \o toolCall.Arguments
                      ELSE @]
        needStart == needsStart(st1)
        start == ToolBlockStartEvent(st1.AnthropicIndex, st1.ID, st1.Name)
        st2 == [st1 EXCEPT !.HasSentStart = TRUE]
        delta == InputJSONDeltaEvent(st1.AnthropicIndex, toolCall.Arguments)
        With(st) == [s1 EXCEPT !.toolCallStates[openAIIndex] = st]
    IN  IF needStart
        THEN IF w = 0 THEN Result(With(st1), <<>>, TRUE)
             ELSE IF toolCall.Arguments = "" THEN Result(With(st2), <<start>>, FALSE)
             ELSE IF w = 1 THEN Result(With(st2), <<start>>, TRUE)
             ELSE Result(With(st2), <<start, delta>>, FALSE)
        ELSE IF st1.HasSentStart /\ toolCall.Arguments # ""
             THEN IF w = 0 THEN Result(With(st1), <<>>, TRUE)
                  ELSE Result(With(st1), <<delta>>, FALSE)
             ELSE Result(With(st1), <<>>, FALSE)

RECURSIVE handleToolCallDeltas(_, _, _)
handleToolCallDeltas(s, toolCalls, w) ==
    IF toolCalls = <<>> THEN Result(s, <<>>, FALSE)
    ELSE LET first == handleToolCall(s, Head(toolCalls), w)
         IN  IF first.err THEN first
             ELSE LET rest == handleToolCallDeltas(first.s, Tail(toolCalls),
                                                   w - Len(first.evs))
                  IN  Result(rest.s, first.evs \o rest.evs, rest.err)

\* the orders in which a range over the map toolCallStates can visit its keys
IterationOrders(m) ==
    {o \in [1..Cardinality(DOMAIN m) -> DOMAIN m] :
        \A k \in DOMAIN m : \E i \in DOMAIN o : o[i] = k}

\* the index of the content_block_stop of the text block
textStopIndex(s) == 0

handleFinishReason(s, finishReason, iteration, w) ==
    LET textStop == IF s.hasStartedTextBlock
                    THEN <<ContentBlockStopEvent(textStopIndex(s))>> ELSE <<>>
        started == SelectSeq(iteration,
                             LAMBDA k : s.toolCallStates[k].HasSentStart)
        toolStops == [i \in 1..Len(started) |->
                        ContentBlockStopEvent(
                            s.toolCallStates[started[i]].AnthropicIndex)]
        evs == textStop \o toolStops \o
               <<MessageDeltaEvent(convertFinishReason(finishReason),
                                   s.outputTokens)>>
    IN  IF w >= Len(evs) THEN Result(s, evs, FALSE)
        ELSE Result(s, SubSeq(evs, 1, w), TRUE)

processStreamChunk(s, openAIResp, iteration, w) ==
    IF ~openAIResp.hasChoice THEN Result(s, <<>>, FALSE)
    ELSE IF openAIResp.content # ""
         THEN handleTextDelta(s, openAIResp.content, w)
    ELSE IF Len(openAIResp.toolCalls) > 0
         THEN handleToolCallDeltas(s, openAIResp.toolCalls, w)
    ELSE IF openAIResp.finishReason # ""
         THEN handleFinishReason(s, openAIResp.finishReason, iteration, w)
    ELSE Result(s, <<>>, FALSE)

\* more writes than one chunk can cause: every write succeeds
Unlimited(openAIResp, s) ==
    2 * Len(openAIResp.toolCalls) + Cardinality(DOMAIN s.toolCallStates) + 2

\* the orders in which the chunk's handler can visit toolCallStates: only
\* handleFinishReason ranges over the map
IterationsOf(openAIResp, s) ==
    IF /\ openAIResp.hasChoice
       /\ openAIResp.content = ""
       /\ Len(openAIResp.toolCalls) = 0
       /\ openAIResp.finishReason # ""
    THEN IterationOrders(s.toolCallStates)
    ELSE {<<>>}

\* the number of events the chunk causes when no write fails
WritesOf(openAIResp, s, iteration) ==
    Len(processStreamChunk(s, openAIResp, iteration,
                           Unlimited(openAIResp, s)).evs)


\* ------------------------------------------------------------------------
\* StreamResponse, for the request on connection c
\* ------------------------------------------------------------------------
InboundModels == {"claude-3-5-sonnet"}

generateMessageID(issued) == issued + 1

\* message_start names the model the request was sent upstream with
sendMessageStart_upstreamModel(s, originalModel) ==
    MessageStartEvent(s.messageID, "gpt-4o")

sendMessageStart(s, originalModel) == MessageStartEvent(s.messageID, originalModel)

sendStreamEnd == MessageStopEvent

\* a content block of the upstream stream: the text, or the tool call at an
\* upstream position; complete tells whether its first delta came with a
\* non-empty id and name in a chunk without text content
TextBlock == [kind |-> "text", pos |-> 0, complete |-> TRUE]
ToolBlock(p, complete) == [kind |-> "tool", pos |-> p, complete |-> complete]

RECURSIVE AppendNew(_, _)
AppendNew(seq, blocks) ==
    IF blocks = <<>> THEN seq
    ELSE AppendNew(IF \E i \in DOMAIN seq :
                         /\ seq[i].kind = Head(blocks).kind
                         /\ seq[i].pos = Head(blocks).pos
                   THEN seq ELSE Append(seq, Head(blocks)),
                   Tail(blocks))

\* the blocks a chunk carries a delta of
Mentions(openAIResp) ==
    IF ~openAIResp.hasChoice THEN <<>>
    ELSE (IF openAIResp.content # "" THEN <<TextBlock>> ELSE <<>>)
         \o [i \in 1..Len(openAIResp.toolCalls) |->
                ToolBlock(openAIResp.toolCalls[i].Index,
                          /\ openAIResp.content = ""
                          /\ openAIResp.toolCalls[i].ID # ""
                          /\ openAIResp.toolCalls[i].Name # "")]

\* the keys of the map in increasing order
Ascending(m) ==
    CHOOSE o \in IterationOrders(m) :
        \A i \in DOMAIN o : \A j \in DOMAIN o : i < j => o[i] < o[j]

Init ==
    /\ svc = NewStreamingService
    /\ idsIssued = 0
    /\ linesRead = 0
    /\ pc = [c \in Conns |-> "idle"]
    /\ model = [c \in Conns |-> ""]
    /\ out = [c \in Conns |-> <<>>]
    /\ warnings = [c \in Conns |-> <<>>]
    /\ order = [c \in Conns |-> <<>>]
    /\ alone = [c \in Conns |-> [s |-> NewStreamingService, out |-> <<>>]]
    /\ config = [BigModelName |-> GPT_DASH \o THREE,
                 SmallModelName |-> GPT_DASH \o THREE \o OPU,
                 OpenClaudeCache |-> FALSE]
    /\ MessagesIdle

\* the first statements of StreamResponse, up to the read loop
StartStreaming(c) ==
    /\ pc[c] # "streaming"
    /\ \A q \in Conns : q < c => pc[q] # "idle"
    /\ idsIssued < MaxRequests
    /\ \E originalModel \in InboundModels :
       LET id == generateMessageID(idsIssued)
           s1 == [resetStreamingState(svc) EXCEPT !.messageID = id]
           evs == <<sendMessageStart(s1, originalModel), PingEvent>>
       IN  /\ svc' = s1
           /\ idsIssued' = id
           /\ model' = [model EXCEPT ![c] = originalModel]
           /\ alone' = [alone EXCEPT ![c] =
                  [s |-> [NewStreamingService EXCEPT !.messageID = id],
                   out |-> <<MessageStartEvent(id, originalModel), PingEvent>>]]
           /\ \E w \in 0..Len(evs) :
                 /\ out' = [out EXCEPT ![c] = SubSeq(evs, 1, w)]
                 /\ pc' = [pc EXCEPT ![c] =
                              IF w = Len(evs) THEN "streaming" ELSE "failed"]
    /\ warnings' = [warnings EXCEPT ![c] = <<>>]
    /\ order' = [order EXCEPT ![c] = <<>>]
    /\ UNCHANGED linesRead
    /\ UNCHANGED msgVars

\* the server handles the requests one after the other
Begin(c) ==
    /\ \A q \in Conns \ {c} : pc[q] = "idle"
    /\ StartStreaming(c)

\* a request arrives while another one is being streamed
BeginConcurrently(c) ==
    /\ \E q \in Conns \ {c} : pc[q] = "streaming"
    /\ StartStreaming(c)

\* an empty line, a ":" comment, or a line without the "data: " prefix
SkipLine(c) ==
    /\ pc[c] = "streaming"
    /\ linesRead < MaxLines
    /\ linesRead' = linesRead + 1
    /\ UNCHANGED <<svc, idsIssued, pc, model, out, warnings, order, alone>>
    /\ UNCHANGED msgVars

\* the parse error is returned as the chunk errors are
Malformed_ReturnsError(c) ==
    /\ pc[c] = "streaming"
    /\ linesRead < MaxLines
    /\ linesRead' = linesRead + 1
    /\ warnings' = [warnings EXCEPT ![c] = Append(@, Len(out[c]))]
    /\ pc' = [pc EXCEPT ![c] = "failed"]
    /\ UNCHANGED <<svc, idsIssued, model, out, order, alone>>
    /\ UNCHANGED msgVars

\* a data line whose payload json.Unmarshal rejects
Malformed(c) ==
    /\ pc[c] = "streaming"
    /\ linesRead < MaxLines
    /\ linesRead' = linesRead + 1
    /\ warnings' = [warnings EXCEPT ![c] = Append(@, Len(out[c]))]
    /\ UNCHANGED <<svc, idsIssued, pc, model, out, order, alone>>
    /\ UNCHANGED msgVars

\* a data line with a chunk: processStreamChunk, then Flush
Chunk(c) ==
    /\ pc[c] = "streaming"
    /\ linesRead < MaxLines
    /\ linesRead' = linesRead + 1
    /\ \E openAIResp \in Chunks :
       \E iteration \in IterationsOf(openAIResp, svc) :
       \E w \in 0..WritesOf(openAIResp, svc, iteration) :
          LET res == processStreamChunk(svc, openAIResp, iteration, w)
              ref == processStreamChunk(alone[c].s, openAIResp,
                                        Ascending(alone[c].s.toolCallStates),
                                        Unlimited(openAIResp, alone[c].s))
          IN  /\ svc' = res.s
              /\ out' = [out EXCEPT ![c] = @ \o res.evs]
              /\ pc' = [pc EXCEPT ![c] = IF res.err THEN "failed" ELSE @]
              /\ order' = [order EXCEPT ![c] = AppendNew(@, Mentions(openAIResp))]
              /\ alone' = [alone EXCEPT ![c] =
                              [s |-> ref.s, out |-> @.out \o ref.evs]]
    /\ UNCHANGED <<idsIssued, model, warnings>>
    /\ UNCHANGED msgVars

\* the end of the read loop without a scanner error, then sendStreamEnd
FinishStream(c) ==
    /\ alone' = [alone EXCEPT ![c].out = Append(@, MessageStopEvent)]
    /\ \E w \in 0..1 :
          /\ out' = [out EXCEPT ![c] = @ \o SubSeq(<<sendStreamEnd>>, 1, w)]
          /\ pc' = [pc EXCEPT ![c] = IF w = 1 THEN "done" ELSE "failed"]
    /\ UNCHANGED <<svc, idsIssued, model, warnings, order>>
    /\ UNCHANGED msgVars

\* message_stop is written at [DONE] and the loop reads on
Done_readsOn(c) ==
    /\ pc[c] = "streaming"
    /\ linesRead < MaxLines
    /\ linesRead' = linesRead + 1
    /\ out' = [out EXCEPT ![c] = Append(@, sendStreamEnd)]
    /\ alone' = [alone EXCEPT ![c].out = Append(@, MessageStopEvent)]
    /\ UNCHANGED <<svc, idsIssued, pc, model, warnings, order>>
    /\ UNCHANGED msgVars

\* the line "data: [DONE]"
Done(c) ==
    /\ pc[c] = "streaming"
    /\ linesRead < MaxLines
    /\ linesRead' = linesRead + 1
    /\ FinishStream(c)

\* the upstream body ends without [DONE]
EndOfStream(c) ==
    /\ pc[c] = "streaming"
    /\ UNCHANGED linesRead
    /\ FinishStream(c)

\* after the error event the stream is ended as a finished one is
ScanError_thenStreamEnd(c) ==
    /\ pc[c] = "streaming"
    /\ pc' = [pc EXCEPT ![c] = "failed"]
    /\ \E w \in 0..2 :
          out' = [out EXCEPT ![c] =
                     @ \o SubSeq(<<ErrorEvent, MessageStopEvent>>, 1, w)]
    /\ UNCHANGED <<svc, idsIssued, linesRead, model, warnings, order, alone>>
    /\ UNCHANGED msgVars

\* scanner.Err() is not nil: StreamResponse returns it and the handler
\* calls HandleStreamingError
ScanError(c) ==
    /\ pc[c] = "streaming"
    /\ pc' = [pc EXCEPT ![c] = "failed"]
    /\ \E w \in 0..1 :
          out' = [out EXCEPT ![c] = @ \o SubSeq(<<ErrorEvent>>, 1, w)]
    /\ UNCHANGED <<svc, idsIssued, linesRead, model, warnings, order, alone>>
    /\ UNCHANGED msgVars

Translate(c) ==
    \/ SkipLine(c)
    \/ Malformed(c)
    \/ Chunk(c)
    \/ Done(c)
    \/ EndOfStream(c)
    \/ ScanError(c)

Next == \E c \in Conns : Begin(c) \/ Translate(c)

Spec == Init /\ [][Next]_vars

NextConcurrent ==
    \E c \in Conns : Begin(c) \/ BeginConcurrently(c) \/ Translate(c)

SpecConcurrent == Init /\ [][NextConcurrent]_vars

\* ------------------------------------------------------------------------
\* CreateMessage, from the request body to the reply; for a streaming
\* request up to the call of StreamResponse
\* ------------------------------------------------------------------------
CreateMessage ==
    /\ phase = "idle"
    /\ \E call \in Calls : \E seed \in Seeds : \E w \in 0..1 :
       LET request == call.request
           converted == ConvertAnthropicToOpenAI(config, request, seed)
           res == IF request.Stream
                  THEN CreateStreamingChatCompletion(call.answers)
                  ELSE CreateChatCompletion(call.answers)
       IN  /\ req' = request
           /\ IF ~request.bindable \/ ~ValidateModel(request.Model)
                 \/ request.overLimit
              THEN /\ reply' = JSONError(400, "validation_error")
                   /\ openAIReq' = NoOpenAIRequest
                   /\ upstream' = <<>>
                   /\ phase' = "responded"
              ELSE IF converted.err
              THEN /\ reply' = JSONError(500, "internal_error")
                   /\ openAIReq' = converted
                   /\ upstream' = <<>>
                   /\ phase' = "responded"
              ELSE /\ openAIReq' = converted
                   /\ upstream' = res.attempts
                   /\ reply' = IF request.Stream
                               THEN handleStreamingRequest(res, w)
                               ELSE handleNonStreamingRequest(res,
                                                              request.Model)
                   /\ phase' = IF request.Stream /\ ~res.failed
                               THEN "streaming" ELSE "responded"
    /\ UNCHANGED <<config, svc, idsIssued, linesRead, pc, model, out,
                   warnings, order, alone>>

InitMessages ==
    /\ svc = NewStreamingService
    /\ idsIssued = 0
    /\ linesRead = 0
    /\ pc = [c \in Conns |-> "idle"]
    /\ model = [c \in Conns |-> ""]
    /\ out = [c \in Conns |-> <<>>]
    /\ warnings = [c \in Conns |-> <<>>]
    /\ order = [c \in Conns |-> <<>>]
    /\ alone = [c \in Conns |-> [s |-> NewStreamingService, out |-> <<>>]]
    /\ config \in Configs
    /\ MessagesIdle

NextMessages == CreateMessage

SpecMessages == InitMessages /\ [][NextMessages]_vars

\* ------------------------------------------------------------------------
\* Properties of the event sequences
\* ------------------------------------------------------------------------
IsStart(e) == e.type = "content_block_start"
IsStop(e) == e.type = "content_block_stop"

\* the indices of the content_block_start events of o, in order
StartIndices(o) ==
    LET starts == SelectSeq(o, IsStart)
    IN  [i \in 1..Len(starts) |-> starts[i].index]

\* the translation has not failed
Translating(c) == pc[c] \in {"streaming", "done"}

\* o with every run of adjacent content_block_stop events put in increasing
\* order of index: the order of a range over a map is not part of a result
RECURSIVE StopsSorted(_)
StopsSorted(o) ==
    LET unsorted == {i \in 1..Len(o) - 1 :
                        /\ IsStop(o[i]) /\ IsStop(o[i + 1])
                        /\ o[i].index > o[i + 1].index}
    IN  IF unsorted = {} THEN o
        ELSE LET i == CHOOSE i \in unsorted : TRUE
             IN  StopsSorted([o EXCEPT ![i] = o[i + 1], ![i + 1] = o[i]])

\* C1: two requests translated at the same time each emit the event
\* sequence they would emit alone: the events written for a request are
\* those of the translation of its own stream with a state of its own.
C1_EachRequestAsAlone ==
    \A c \in Conns :
        Translating(c) => StopsSorted(out[c]) = StopsSorted(alone[c].out)

\* the upstream stream of c is a text delta followed by deltas of two
\* distinct tool calls
TextThenTwoTools(c) ==
    /\ Len(order[c]) = 3
    /\ order[c][1].kind = "text"
    /\ order[c][2].kind = "tool"
    /\ order[c][3].kind = "tool"

\* C2 as stated: at the end of a stream made of a text delta followed by
\* deltas of two distinct tool calls, the content_block_start events carry
\* the indices 0, 1, 2.
C2_StartsAre012 ==
    \A c \in Conns :
        (pc[c] = "done" /\ TextThenTwoTools(c))
            => StartIndices(out[c]) = <<0, 1, 2>>

\* C2 as amended: when a text delta comes first and is followed by deltas of
\* two distinct tool calls, each first seen with a non-empty id and name in
\* a chunk without text content, the content_block_start events of a
\* translation that has not failed carry the indices 0, 1, 2 in this order.
C2_StartsAre012WhenNamedAtFirst ==
    \A c \in Conns :
        (/\ Translating(c)
         /\ TextThenTwoTools(c)
         /\ order[c][2].complete
         /\ order[c][3].complete)
            => StartIndices(out[c]) = <<0, 1, 2>>

C2_Witness ==
    \E c \in Conns :
        /\ pc[c] = "done"
        /\ TextThenTwoTools(c)
        /\ order[c][2].complete /\ order[c][3].complete
        /\ order[c][2].pos > order[c][3].pos
        /\ StartIndices(out[c]) = <<0, 1, 2>>

\* the index given to the i-th block of the upstream stream of c: the index
\* of the text block's start event, the AnthropicIndex of a tool call
HasIndex(c, i) ==
    IF order[c][i].kind = "text"
    THEN \E k \in DOMAIN out[c] : IsStart(out[c][k]) /\ out[c][k].block = "text"
    ELSE order[c][i].pos \in DOMAIN svc.toolCallStates

IndexOf(c, i) ==
    IF order[c][i].kind = "text"
    THEN out[c][CHOOSE k \in DOMAIN out[c] :
                    IsStart(out[c][k]) /\ out[c][k].block = "text"].index
    ELSE svc.toolCallStates[order[c][i].pos].AnthropicIndex

\* C3: within a request the content-block indices are given in order of
\* first appearance: the first block gets 0, a later block a larger index
\* than every earlier one, and a tool call never its upstream position.
C3_IndicesInOrderOfAppearance ==
    \A c \in Conns : Translating(c) =>
        \A i \in DOMAIN order[c] : HasIndex(c, i) =>
            /\ i = 1 => IndexOf(c, i) = 0
            /\ \A j \in 1..i - 1 : HasIndex(c, j) => IndexOf(c, j) < IndexOf(c, i)
            /\ order[c][i].kind = "tool" => IndexOf(c, i) # order[c][i].pos

\* the content_block_start events of the tool call at upstream position p
ToolStartsAt(c, p) ==
    {k \in DOMAIN out[c] :
        /\ IsStart(out[c][k]) /\ out[c][k].block = "tool_use"
        /\ p \in DOMAIN svc.toolCallStates
        /\ out[c][k].index = svc.toolCallStates[p].AnthropicIndex}

\* C4: a tool call has at most one content_block_start, and has one only
\* when a non-empty id and a non-empty name were received for its position;
\* every tool_use start event belongs to such a tool call and carries them.
C4_ToolStartOnceWhenNamed ==
    \A c \in Conns : pc[c] # "idle" =>
        /\ \A p \in Positions :
              /\ Cardinality(ToolStartsAt(c, p)) <= 1
              /\ ToolStartsAt(c, p) # {} =>
                    /\ svc.toolCallStates[p].ID # ""
                    /\ svc.toolCallStates[p].Name # ""
        /\ \A k \in DOMAIN out[c] :
              (IsStart(out[c][k]) /\ out[c][k].block = "tool_use") =>
                  /\ out[c][k].id # "" /\ out[c][k].name # ""
                  /\ \E p \in Positions : k \in ToolStartsAt(c, p)

C4_Witness ==
    \E c \in Conns : \E p \in Positions : \E q \in Positions :
        /\ Cardinality(ToolStartsAt(c, p)) = 1
        /\ svc.toolCallStates[p].ArgumentsBuffer # ""
        /\ q \in DOMAIN svc.toolCallStates
        /\ svc.toolCallStates[q].ID # ""
        /\ svc.toolCallStates[q].Name = ""
        /\ ToolStartsAt(c, q) = {}

\* C5: a content_block_stop carries the index of a block whose
\* content_block_start was written earlier for the same request.
C5_StopOnlyAfterStart ==
    \A c \in Conns : \A k \in DOMAIN out[c] :
        IsStop(out[c][k]) =>
            \E j \in 1..k - 1 :
                IsStart(out[c][j]) /\ out[c][j].index = out[c][k].index

\* C6: when the translation of a request ends without error, each block
\* that got a content_block_start got exactly one content_block_stop.
C6_EachStartedBlockStoppedOnce ==
    \A c \in Conns : pc[c] = "done" =>
        \A j \in DOMAIN out[c] : IsStart(out[c][j]) =>
            Cardinality({k \in DOMAIN out[c] :
                            /\ IsStop(out[c][k])
                            /\ out[c][k].index = out[c][j].index}) = 1

\* C7: a message_delta comes after the content_block_stop of every block
\* started before it, no content_block_stop follows it, and in a finished
\* translation message_stop follows it.
C7_StopsThenDeltaThenMessageStop ==
    \A c \in Conns : \A i \in DOMAIN out[c] :
        out[c][i].type = "message_delta" =>
            /\ \A j \in 1..i - 1 : IsStart(out[c][j]) =>
                  \E k \in j + 1..i - 1 :
                      IsStop(out[c][k]) /\ out[c][k].index = out[c][j].index
            /\ \A k \in i + 1..Len(out[c]) : ~IsStop(out[c][k])
            /\ pc[c] = "done" =>
                  \E k \in i + 1..Len(out[c]) : out[c][k].type = "message_stop"

\* C8: after the message_delta of the finish reason no content_block_start,
\* content_block_delta, content_block_stop or message_delta is written, and
\* the message_stop of a finished translation is its last event.
C8_NothingAfterFinish ==
    \A c \in Conns :
        /\ \A i \in DOMAIN out[c] : \A k \in DOMAIN out[c] :
              (out[c][i].type = "message_delta" /\ i < k) =>
                  out[c][k].type \notin
                      {"content_block_start", "content_block_delta",
                       "content_block_stop", "message_delta"}
        /\ pc[c] = "done" => out[c][Len(out[c])].type = "message_stop"

\* C9: the events of a streaming response begin with message_start, which
\* carries the message id generated for this request, the model name of the
\* inbound request and a usage of zero, followed by ping; both are written
\* before the read loop, and neither is written again.
C9_MessageStartThenPing ==
    \A c \in Conns :
        /\ Len(out[c]) >= 1 =>
              /\ out[c][1] = MessageStartEvent(idsIssued, model[c])
              /\ out[c][1].msg_id > 0
              /\ out[c][1].usage = <<0, 0>>
        /\ Len(out[c]) >= 2 => out[c][2] = PingEvent
        /\ Translating(c) => Len(out[c]) >= 2
        /\ \A k \in 3..Len(out[c]) :
              out[c][k].type \notin {"message_start", "ping"}

C9_Witness ==
    \E c \in Conns :
        /\ pc[c] = "done"
        /\ idsIssued = 2
        /\ Len(out[c]) > 3
        /\ out[c][1].type = "message_start" /\ out[c][1].msg_id = 2
        /\ out[c][2].type = "ping"

\* C10: a step that logs a line as not parseable writes no event, leaves
\* the state of the translator as it is and does not end the stream; the
\* events written are those of the stream without its malformed lines.
C10_MalformedLineSkipped ==
    /\ [][\A c \in Conns :
            Len(warnings'[c]) > Len(warnings[c]) =>
                /\ out'[c] = out[c]
                /\ svc' = svc
                /\ pc[c] = "streaming" /\ pc'[c] = "streaming"]_vars
    /\ [](\A c \in Conns :
            (Translating(c) /\ warnings[c] # <<>>) =>
                StopsSorted(out[c]) = StopsSorted(alone[c].out))

C10_Witness ==
    \E c \in Conns :
        /\ pc[c] = "done"
        /\ \E i \in DOMAIN warnings[c] : Len(out[c]) > warnings[c][i] + 1

\* ------------------------------------------------------------------------
\* Properties of the conversions
\* ------------------------------------------------------------------------
\* the handler answered with a converted upstream response
Answered == phase = "responded" /\ reply.kind = "message"

\* the first choice of the upstream response that was converted
FirstChoice == upstream[Len(upstream)].response.Choices[1]

\* the request was converted and sent upstream
Forwarded == phase # "idle" /\ ~openAIReq.err /\ Len(upstream) > 0

\* the table of finish reasons
StopReasonTable ==
    [r \in {"stop", "length", "tool_calls", "content_filter"} |->
        CASE r = "stop" -> "end_turn"
          [] r = "length" -> "max_tokens"
          [] r = "tool_calls" -> "tool_use"
          [] r = "content_filter" -> "stop_sequence"]

\* C11: the stop reason of a converted response is the table's entry for
\* the finish reason of the first choice, end_turn when the table has none
\* (the empty string included), and the streaming translator's
\* convertFinishReason gives the same stop reason for that finish reason.
C11_FinishReasonTable ==
    Answered =>
        LET reason == FirstChoice.FinishReason
            expected == IF reason \in DOMAIN StopReasonTable
                        THEN StopReasonTable[reason] ELSE "end_turn"
        IN  /\ reply.message.StopReason = expected
            /\ convertFinishReason(reason) = reply.message.StopReason

C11_Witness ==
    /\ Answered
    /\ FirstChoice.FinishReason = "content_filter"
    /\ reply.message.StopReason = "stop_sequence"

\* the number of elements of a sequence that satisfy a test
Count(seq, Test(_)) == Cardinality({i \in DOMAIN seq : Test(seq[i])})

IsTextOrImagePart(part) == part.typ \in {"text", "image_url"}
IsTextBlock(block) == block.Type = "text"
IsToolUseBlock(block) == block.Type = "tool_use"

\* the number of text blocks the content of a choice converts to
TextBlocksOf(choice) ==
    CASE choice.Content.kind = "string" ->
            IF choice.Content.text # "" THEN 1 ELSE 0
      [] choice.Content.kind = "list" ->
            Count(choice.Content.parts, IsTextOrImagePart)
      [] OTHER -> 0

\* C12: the content of a converted response is never empty; when the first
\* choice has text or tool calls it holds one block for each of them, the
\* text blocks before the tool_use blocks, which carry the ids of the tool
\* calls in their order; otherwise it is one empty text block.  So no text
\* block is added to a response that has a tool call.
C12_ContentNeverEmpty ==
    Answered =>
        LET choice == FirstChoice
            content == reply.message.Content
            nText == TextBlocksOf(choice)
            nTools == Len(choice.ToolCalls)
        IN  /\ Len(content) > 0
            /\ nText + nTools > 0 =>
                  /\ Len(content) = nText + nTools
                  /\ \A i \in 1..nText : IsTextBlock(content[i])
                  /\ \A k \in 1..nTools :
                        /\ IsToolUseBlock(content[nText + k])
                        /\ content[nText + k].ID = choice.ToolCalls[k].ID
            /\ nText + nTools = 0 =>
                  content = <<[Type |-> "text", Text |-> "", ID |-> "",
                               Name |-> "", Input |-> "", CacheControl |-> ""]>>

C12_Witness ==
    /\ Answered
    /\ Len(FirstChoice.ToolCalls) > 0
    /\ TextBlocksOf(FirstChoice) = 0
    /\ Len(reply.message.Content) = Len(FirstChoice.ToolCalls)

\* the request passed the checks of CreateMessage and was converted
WasConverted == phase # "idle" /\ ~openAIReq.err

\* the outbound messages built for the inbound message at position i
\* (for the system prompt when i = 0)
BuiltFor(i) == {k \in DOMAIN openAIReq.Messages : openAIReq.Messages[k].from = i}

\* C13: in a converted request every outbound message built for inbound
\* message i precedes every outbound message built for a later inbound
\* message j; a system prompt gives exactly one system message, which
\* precedes them all; an inbound message with string content is found at
\* its place with its role and text.
C13_MessageOrderPreserved ==
    WasConverted =>
        LET ms == openAIReq.Messages
        IN  /\ \A a \in DOMAIN ms : \A b \in DOMAIN ms :
                  a < b => ms[a].from <= ms[b].from
            /\ \A k \in DOMAIN ms : ms[k].from \in 0..Len(req.Messages)
            /\ IF req.System.kind # "none"
               THEN BuiltFor(0) = {1} /\ ms[1].Role = "system"
               ELSE BuiltFor(0) = {}
            /\ \A i \in DOMAIN req.Messages :
                  req.Messages[i].Content.kind = "string" =>
                     \E k \in DOMAIN ms :
                        /\ BuiltFor(i) = {k}
                        /\ ms[k].Role = req.Messages[i].Role
                        /\ ms[k].Content = req.Messages[i].Content

C13_Witness ==
    /\ WasConverted
    /\ req.System.kind = "list"
    /\ Len(req.Messages) = 2
    /\ Cardinality(BuiltFor(1)) = 2
    /\ Cardinality(BuiltFor(2)) = 1
    /\ openAIReq.Messages[1].Role = "system"

IsToolResult(item) == item.typ = "tool_result"

IsToolUse(item) == item.typ = "tool_use"
IsText(item) == item.typ = "text"

\* the items of an assistant message that give text: the text blocks with
\* a text, and the blocks of an unknown type
GivesText(item) ==
    \/ item.typ = "text" /\ item.hasText
    \/ item.typ \notin {"", "text", "tool_use"}

\* the newline-joined text of the items of an assistant message
JoinedText(items) ==
    LET textual == SelectSeq(items, GivesText)
    IN  Join([k \in DOMAIN textual |->
                 IF textual[k].typ = "text" THEN textual[k].text
                 ELSE UnknownContentText(textual[k])], "\n")

\* the tool calls of outbound message k name the tool_use items, in order
CarriesToolCalls(k, items) ==
    LET uses == SelectSeq(items, IsToolUse)
        calls == openAIReq.Messages[k].ToolCalls
    IN  /\ Len(calls) = Len(uses)
        /\ \A j \in DOMAIN uses : calls[j].Name = uses[j].name

\* the assistant messages with a block list that holds a tool_use
WithToolUse ==
    {i \in DOMAIN req.Messages :
        /\ req.Messages[i].Role = "assistant"
        /\ req.Messages[i].Content.kind = "list"
        /\ \E j \in DOMAIN req.Messages[i].Content.parts :
              IsToolUse(req.Messages[i].Content.parts[j])}

\* outbound messages k and k + 1 are the text message and the tool-call
\* message of the items
TextThenToolCalls(k, items) ==
    /\ openAIReq.Messages[k].Role = "assistant"
    /\ openAIReq.Messages[k].Content = StringContent(JoinedText(items))
    /\ openAIReq.Messages[k].ToolCalls = <<>>
    /\ openAIReq.Messages[k + 1].Role = "assistant"
    /\ openAIReq.Messages[k + 1].Content = NoContent
    /\ CarriesToolCalls(k + 1, items)

\* C15 as claimed: an assistant message with a text block and a tool_use
\* block converts to two messages, the text message first.
C15_TextAndToolUseGiveTwo ==
    WasConverted =>
        \A i \in WithToolUse :
            LET items == req.Messages[i].Content.parts
            IN  (\E j \in DOMAIN items : IsText(items[j])) =>
                   \E k \in DOMAIN openAIReq.Messages :
                      /\ BuiltFor(i) = {k, k + 1}
                      /\ TextThenToolCalls(k, items)

\* C15, amended: an assistant message with a tool_use block whose text
\* parts, joined by newlines, are not empty converts to exactly two
\* assistant messages: first the joined text without tool calls, then the
\* tool calls in block order without content, wherever the text stood; when
\* the joined text is empty it converts to the tool-call message alone.
C15_NonEmptyTextAndToolUseGiveTwo ==
    WasConverted =>
        \A i \in WithToolUse :
            LET items == req.Messages[i].Content.parts
            IN  \E k \in DOMAIN openAIReq.Messages :
                   IF JoinedText(items) # ""
                   THEN BuiltFor(i) = {k, k + 1} /\ TextThenToolCalls(k, items)
                   ELSE /\ BuiltFor(i) = {k}
                        /\ openAIReq.Messages[k].Content = NoContent
                        /\ CarriesToolCalls(k, items)

C15_Witness ==
    /\ WasConverted
    /\ 1 \in WithToolUse
    /\ Len(req.Messages[1].Content.parts) = 2
    /\ IsToolUse(req.Messages[1].Content.parts[1])
    /\ IsText(req.Messages[1].Content.parts[2])
    /\ BuiltFor(1) = {1, 2}
    /\ openAIReq.Messages[1].Content = StringContent("a")
    /\ Len(openAIReq.Messages[2].ToolCalls) = 1

HasHint(item) == item.cache # ""
CallHasHint(call) == call.CacheControl # ""

\* the cache hints carried by an outbound message: on the message, on the
\* parts of its content, and on its tool calls
HintsOn(m) ==
    (IF m.CacheControl # "" THEN 1 ELSE 0)
    + (IF m.Content.kind = "list" THEN Count(m.Content.parts, HasHint) ELSE 0)
    + Count(m.ToolCalls, CallHasHint)

RECURSIVE HintsOnAll(_)
HintsOnAll(messages) ==
    IF messages = <<>> THEN 0
    ELSE HintsOn(Head(messages)) + HintsOnAll(Tail(messages))

\* the cache hints on the outbound messages built for inbound message i
\* (0: the system prompt)
HintsBuiltFor(i) ==
    HintsOnAll(SelectSeq(openAIReq.Messages, LAMBDA m : m.from = i))

\* a system text block with a cache hint
HintedSystemText(item) == ~item.plain /\ item.typ = "text" /\ HasHint(item)

\* a user item with a cache hint that has an outbound item: a text, an
\* image, or a tool_result
HintedUserItem(item) ==
    /\ HasHint(item)
    /\ \/ item.typ = "text" /\ item.hasText
       \/ item.typ = "image" /\ item.valid
       \/ item.typ = "tool_result"

HintedToolUse(item) == item.typ = "tool_use" /\ HasHint(item)
HintedText(item) == item.typ = "text" /\ item.hasText /\ HasHint(item)

\* the cache hints of inbound message i that have an outbound item; the
\* text blocks of an assistant message have one outbound item together
HintsOf(i) ==
    LET msg == req.Messages[i]
        items == msg.Content.parts
    IN  IF msg.Content.kind # "list" THEN 0
        ELSE IF msg.Role = "user" THEN Count(items, HintedUserItem)
        ELSE IF msg.Role = "assistant"
        THEN Count(items, HintedToolUse)
             + (IF Count(items, HintedText) > 0 /\ JoinedText(items) # ""
                THEN 1 ELSE 0)
        ELSE 0

\* C16: a cache hint on an inbound item (system text block, user text or
\* image block, tool_result, assistant text or tool_use block, tool
\* definition) is on the corresponding outbound item when the outbound
\* model is cache-capable, and no outbound item carries a hint when it is
\* not.
C16_HintForwardedIffCacheCapable ==
    WasConverted =>
        LET claude == isClaudeModel(config, openAIReq.Model)
            n == Len(req.Messages)
        IN  /\ HintsBuiltFor(0) =
                 IF claude /\ req.System.kind = "list"
                 THEN Count(req.System.parts, HintedSystemText) ELSE 0
            /\ \A i \in 1..n :
                 HintsBuiltFor(i) = IF claude THEN HintsOf(i) ELSE 0
            /\ \A k \in DOMAIN openAIReq.Tools :
                 openAIReq.Tools[k].CacheControl =
                     IF claude THEN req.Tools[k].CacheControl ELSE ""

\* an outbound message without its cache hints
MessageWithoutHints(m) ==
    [m EXCEPT
        !.CacheControl = "",
        !.Content = IF @.kind = "list"
                    THEN ListContent([k \in DOMAIN @.parts |->
                                         [@.parts[k] EXCEPT !.cache = ""]])
                    ELSE @,
        !.ToolCalls = [k \in DOMAIN @ |-> [@[k] EXCEPT !.CacheControl = ""]]]

\* an outbound request without its cache hints
WithoutHints(r) ==
    [r EXCEPT
        !.Messages = [k \in DOMAIN @ |-> MessageWithoutHints(@[k])],
        !.Tools = [k \in DOMAIN @ |-> [@[k] EXCEPT !.CacheControl = ""]]]

IsTextPart(part) == part.typ = "text"

\* a list content made of text parts only, as the newline-joined text
Flattened(content) ==
    IF content.kind = "list" /\ Count(content.parts, IsTextPart) = Len(content.parts)
    THEN StringContent(Join([k \in DOMAIN content.parts |->
                                content.parts[k].text], "\n"))
    ELSE content

\* an outbound request with the text-only list contents flattened
WithFlatText(r) ==
    [r EXCEPT !.Messages = [k \in DOMAIN @ |->
                               [@[k] EXCEPT !.Content = Flattened(@)]]]

\* the outbound request of the request in hand, were the classification
\* of the outbound model the other one
OtherClassification(seed) ==
    ConvertAnthropicToOpenAI([config EXCEPT !.OpenClaudeCache = ~@], req, seed)

\* the classification of the outbound model depends on the configuration
Toggles ==
    isClaudeModel(config, openAIReq.Model)
        # isClaudeModel([config EXCEPT !.OpenClaudeCache = ~@], openAIReq.Model)

TextWithoutText(item) == ~item.plain /\ item.typ = "text" /\ ~item.hasText

\* C17 as claimed: the outbound requests of the two classifications are
\* identical once the cache hints are removed.
C17_SameButForHints ==
    WasConverted =>
        \A seed \in Seeds :
            openAIReq = ConvertAnthropicToOpenAI(config, req, seed) =>
                WithoutHints(openAIReq) = WithoutHints(OtherClassification(seed))

\* C17, amended: for a request whose system text blocks all carry a text,
\* the outbound requests of the two classifications are identical once the
\* cache hints are removed and every list content made of text parts only
\* is replaced by the newline-joined text of its parts.
C17_SameButForHintsAndTextShape ==
    WasConverted /\ Count(req.System.parts, TextWithoutText) = 0 =>
        \A seed \in Seeds :
            openAIReq = ConvertAnthropicToOpenAI(config, req, seed) =>
                WithFlatText(WithoutHints(openAIReq))
                    = WithFlatText(WithoutHints(OtherClassification(seed)))

C17_Witness ==
    /\ WasConverted
    /\ Toggles
    /\ Len(req.Messages) = 1
    /\ req.Messages[1].Role = "user"
    /\ req.Messages[1].Content.kind = "list"
    /\ Len(req.Messages[1].Content.parts) = 2
    /\ HintedUserItem(req.Messages[1].Content.parts[1])
    /\ IsToolResult(req.Messages[1].Content.parts[2])
    /\ HintsBuiltFor(1) > 0
    /\ \E seed \in Seeds :
          /\ openAIReq # OtherClassification(seed)
          /\ WithoutHints(openAIReq) = WithoutHints(OtherClassification(seed))

\* character a is character b, a lower-case letter, in either case
SameLetter(a, b) ==
    a = b \/ \E k \in DOMAIN UpperLetters :
                UpperLetters[k] = a /\ LowerLetters[k] = b

\* the name has the lower-case word in it, in any mix of cases
Names(str, word) ==
    \E i \in 1..Len(str) :
        /\ i + Len(word) - 1 <= Len(str)
        /\ \A k \in 1..Len(word) : SameLetter(str[i + k - 1], word[k])

\* C18: the outbound model is the big-tier model when the inbound name has
\* "opus" or "sonnet" in it in any case (also next to "haiku"), and the
\* small-tier model for every other name, with "haiku" or without.
C18_SelectModelByTier ==
    WasConverted =>
        openAIReq.Model =
            IF Names(req.Model, OPUS) \/ Names(req.Model, SONNET)
            THEN config.BigModelName
            ELSE config.SmallModelName

C18_Witness ==
    /\ WasConverted
    /\ Names(req.Model, HAIKU)
    /\ Names(req.Model, OPUS)
    /\ ~Contains(req.Model, OPUS)
    /\ openAIReq.Model = config.BigModelName
    /\ config.BigModelName # config.SmallModelName

\* C19 as claimed: auto gives "auto", any gives "required", tool with a
\* name gives a reference to the function of that name, and anything else
\* gives "auto".
C19_ToolChoiceMapping ==
    WasConverted /\ req.ToolChoice.present =>
        openAIReq.ToolChoice =
            CASE req.ToolChoice.Type = "auto" -> ChoiceString("auto")
              [] req.ToolChoice.Type = "any" -> ChoiceString("required")
              [] req.ToolChoice.Type = "tool" /\ req.ToolChoice.Name # "" ->
                    ChoiceFunction(req.ToolChoice.Name)
              [] OTHER -> ChoiceString("auto")

\* C19, amended: for a request with at least one tool, auto gives "auto",
\* any gives "required", tool with a name gives a reference to the function
\* of that name, tool without a name gives "required", and any other type
\* gives "auto"; a request without tools has no outbound tool choice.
C19_ToolChoiceMappingWithTools ==
    WasConverted /\ req.ToolChoice.present =>
        IF Len(req.Tools) = 0 THEN openAIReq.ToolChoice = ChoiceUnset
        ELSE openAIReq.ToolChoice =
                CASE req.ToolChoice.Type = "auto" -> ChoiceString("auto")
                  [] req.ToolChoice.Type = "any" -> ChoiceString("required")
                  [] req.ToolChoice.Type = "tool" /\ req.ToolChoice.Name # "" ->
                        ChoiceFunction(req.ToolChoice.Name)
                  [] req.ToolChoice.Type = "tool" -> ChoiceString("required")
                  [] OTHER -> ChoiceString("auto")

C19_Witness ==
    /\ WasConverted
    /\ Len(req.Tools) > 0
    /\ req.ToolChoice = AnthropicToolChoice("tool", "f")
    /\ openAIReq.ToolChoice = ChoiceFunction("f")

\* the upstream call of the request failed: its last attempt was not
\* answered with a response
UpstreamFailed ==
    /\ phase = "responded"
    /\ upstream # <<>>
    /\ upstream[Len(upstream)].kind # "ok"

\* the status code of each error type of the taxonomy
StatusOfType ==
    [validation_error |-> 400, authentication_error |-> 401,
     permission_error |-> 403, rate_limit_error |-> 429, api_error |-> 502,
     internal_error |-> 500]

\* C20: when the upstream call fails before anything was sent downstream,
\* for a streaming request as for another, the reply is a structured error
\* whose HTTP status is the fixed code of its error type.
C20_UpstreamFailureGivesStatusOfType ==
    UpstreamFailed =>
        /\ reply.kind = "error"
        /\ reply.errorType \in DOMAIN StatusOfType
        /\ reply.status = StatusOfType[reply.errorType]

\* ------------------------------------------------------------------------
\* Properties of the streams that fail, end, and follow each other
\* ------------------------------------------------------------------------
IsError(e) == e.type = "error"

\* the positions of the error events written for the request of c
ErrorsOf(c) == {k \in DOMAIN out[c] : IsError(out[c][k])}

\* C21 as claimed: a request that failed after its message_start was
\* written has exactly one error event, and it is its last event.
C21_OneErrorEventAtTheEnd ==
    \A c \in Conns :
        (pc[c] = "failed" /\ Len(out[c]) >= 1) =>
            /\ Cardinality(ErrorsOf(c)) = 1
            /\ IsError(out[c][Len(out[c])])

\* C21, amended: a request has at most one error event, written after
\* message_start as the last event of a failed request; it is written by a
\* step that reads no line and changes no state of the translator, which
\* is the failed upstream read, and a step in which a downstream write fails
\* writes none; nothing is written for a request once it has failed.
C21_ErrorEventOnlyForFailedRead ==
    /\ [](\A c \in Conns :
            /\ Cardinality(ErrorsOf(c)) <= 1
            /\ \A k \in ErrorsOf(c) :
                  /\ k = Len(out[c]) /\ k > 2
                  /\ out[c][1].type = "message_start"
                  /\ pc[c] = "failed")
    /\ [][\A c \in Conns :
            /\ (pc[c] = "streaming" /\ ErrorsOf(c) = {} /\ out'[c] # <<>>
                /\ IsError(out'[c][Len(out'[c])])) =>
                  /\ out'[c] = Append(out[c], ErrorEvent)
                  /\ linesRead' = linesRead
                  /\ svc' = svc
            /\ (pc[c] = "failed" /\ idsIssued' = idsIssued) =>
                  out'[c] = out[c]]_vars

C21_Witness ==
    \E c \in Conns :
        /\ pc[c] = "failed"
        /\ Len(out[c]) >= 5
        /\ out[c][Len(out[c])] = ErrorEvent
        /\ \E k \in DOMAIN out[c] : out[c][k].block = "text_delta"

\* the handling of the request ended before the upstream call: the body
\* was not accepted, the model is not supported, the request is over the
\* token limit, or its conversion returned an error
FailedBeforeUpstream == phase = "responded" /\ openAIReq.err

\* C22: a request whose handling fails before the upstream call is
\* answered with a validation error, HTTP 400, and no upstream call is
\* made for it.
C22_FailsFastWith400 ==
    FailedBeforeUpstream =>
        /\ reply = JSONError(400, "validation_error")
        /\ upstream = <<>>

\* the attempt failed with an error whose text has "EOF" in it
FailedWithEOF(attempt) == attempt.kind # "ok" /\ attemptError(attempt).eof

\* C23: for one request the client makes at most 3 upstream attempts and
\* the handler then replies; every attempt but the last failed with an EOF
\* error, an attempt that succeeds or fails otherwise is the last one, a
\* streaming request has a single attempt, and no attempt is made once the
\* reply is written.
C23_BoundedRetriesBeforeDelivery ==
    /\ [](phase # "idle" =>
            /\ Len(upstream) <= 3
            /\ \A i \in 1..Len(upstream) - 1 : FailedWithEOF(upstream[i])
            /\ (~openAIReq.err /\ ~req.Stream /\ Len(upstream) < 3) =>
                  /\ upstream # <<>>
                  /\ ~FailedWithEOF(upstream[Len(upstream)])
            /\ (~openAIReq.err /\ req.Stream) => Len(upstream) = 1
            /\ reply # NoReply)
    /\ [][reply # NoReply => upstream' = upstream]_vars

C23_Witness ==
    /\ phase = "responded"
    /\ ~req.Stream
    /\ Len(upstream) = 3
    /\ FailedWithEOF(upstream[1]) /\ FailedWithEOF(upstream[2])
    /\ upstream[3].kind = "ok"
    /\ reply.kind = "message"

IsTextStart(e) == IsStart(e) /\ e.block = "text"
IsTextDelta(e) == e.type = "content_block_delta" /\ e.block = "text_delta"

\* C24: the content_block_start of the text block is written at index 0,
\* and every text delta of the request carries the index 0.
C24_TextBlockAtIndex0 ==
    \A c \in Conns : \A k \in DOMAIN out[c] :
        (IsTextStart(out[c][k]) \/ IsTextDelta(out[c][k])) =>
            out[c][k].index = 0

IsMessageStop(e) == e.type = "message_stop"

\* C25: the step that ends a stream (at [DONE], a line read, or at the end
\* of the input) writes message_stop and leaves the translator state as it
\* is; the events of an ended request are then final, no line is read and
\* the translator state does not change until a next request begins; an
\* ended request has exactly one message_stop, its last event.
C25_DoneEndsTheStream ==
    /\ [](\A c \in Conns : pc[c] = "done" =>
            /\ Cardinality({k \in DOMAIN out[c] : IsMessageStop(out[c][k])}) = 1
            /\ IsMessageStop(out[c][Len(out[c])]))
    /\ [][\A c \in Conns :
            /\ (pc[c] = "streaming" /\ pc'[c] = "done") =>
                  /\ out'[c] = Append(out[c], MessageStopEvent)
                  /\ svc' = svc
            /\ (pc[c] = "done" /\ idsIssued' = idsIssued) =>
                  /\ out'[c] = out[c]
                  /\ pc'[c] = "done"
            /\ (pc[c] = "done" /\ \A q \in Conns : pc[q] # "streaming") =>
                  /\ linesRead' = linesRead
                  /\ idsIssued' = idsIssued => svc' = svc]_vars

\* a stream ended with lines left to read, after a line that wrote nothing
C25_Witness ==
    \E c \in Conns :
        /\ pc[c] = "done"
        /\ idsIssued = 1
        /\ linesRead = 2
        /\ linesRead < MaxLines
        /\ Len(out[c]) = 5
        /\ IsTextDelta(out[c][4])
        /\ IsMessageStop(out[c][5])

\* the partial_json fragments written for c at a content-block index, joined
PartialJSONAt(c, index) ==
    LET deltas == SelectSeq(out[c],
                      LAMBDA e : /\ e.type = "content_block_delta"
                                 /\ e.block = "input_json_delta"
                                 /\ e.index = index)
    IN  Join([k \in DOMAIN deltas |-> deltas[k].text], "")

\* the upstream positions of the tool calls of the request whose block was
\* started
StartedToolCalls ==
    {p \in DOMAIN svc.toolCallStates : svc.toolCallStates[p].HasSentStart}

\* the texts that the fragments of some lines join to
FragmentTexts == {Join(fs, "") : fs \in SeqsUpTo(ArgFragments, MaxLines)}

\* the first delta of the tool call at position p of the stream of c came
\* with its id and its name
NamedAtFirst(c, p) ==
    \E i \in DOMAIN order[c] :
        /\ order[c][i].kind = "tool" /\ order[c][i].pos = p
        /\ order[c][i].complete

IsMessageDelta(e) == e.type = "message_delta"

\* C27: a streaming response that ended without an error has exactly one
\* message_delta, written before its message_stop.
C27_OneMessageDelta ==
    \A c \in Conns : pc[c] = "done" =>
        /\ Cardinality({k \in DOMAIN out[c] : IsMessageDelta(out[c][k])}) = 1
        /\ \A k \in DOMAIN out[c] :
              IsMessageDelta(out[c][k]) =>
                  \E j \in k + 1..Len(out[c]) : IsMessageStop(out[c][j])

\* C28: the content_block_stop events written for a finish reason come in
\* increasing order of index, the same at every translation of a stream.
C28_StopsInIndexOrder ==
    \A c \in Conns : \A k \in 1..Len(out[c]) - 1 :
        (IsStop(out[c][k]) /\ IsStop(out[c][k + 1])) =>
            out[c][k].index < out[c][k + 1].index

\* C29: a request that begins after others have completed or failed starts
\* with the index counter 0, the text block not started, an output-token
\* count of 0 and no tool-call state, and the events written for it are
\* those of the translation of its own stream from a new state.
C29_NoStateLeftFromEarlierRequests ==
    /\ [][idsIssued' # idsIssued =>
            /\ svc'.currentContentBlockIndex = 0
            /\ ~svc'.hasStartedTextBlock
            /\ svc'.outputTokens = 0
            /\ svc'.toolCallStates = <<>>
            /\ svc'.hasStartedToolBlocks = {}]_vars
    /\ [](\A c \in Conns :
            Translating(c) => StopsSorted(out[c]) = StopsSorted(alone[c].out))

\* a second request has got the indices 0 and 1 after a first one
C29_Witness ==
    \E c \in Conns :
        /\ idsIssued = 2
        /\ Translating(c)
        /\ linesRead = MaxLines
        /\ svc.currentContentBlockIndex = 1
        /\ StartIndices(out[c]) = <<0, 1>>

\* the error type of each status of a reply that is not 200
TypeOfStatus(status) ==
    CASE status = 401 -> "authentication_error"
      [] status = 403 -> "permission_error"
      [] status = 429 -> "rate_limit_error"
      [] status = 400 -> "validation_error"
      [] OTHER -> "api_error"

\* the last attempt of a request that is not streaming was answered with a
\* status other than 200
UpstreamRefused ==
    /\ UpstreamFailed
    /\ ~req.Stream
    /\ upstream[Len(upstream)].kind = "http"

\* C30: the error type of a reply that is not 200 is the type of its
\* status, whatever its body holds, and the status returned downstream is
\* the code of that type.
C30_ErrorTypeByStatusAlone ==
    UpstreamRefused =>
        LET errorType == TypeOfStatus(upstream[Len(upstream)].status)
        IN  reply = JSONError(StatusOfType[errorType], errorType)

====
